---- MODULE Spec2Model ----
(***************************************************************************)
(* The entropy decoder of libjxl (jxl/dec_ans.h, jxl/dec_ans.cc):          *)
(* HybridUintConfig, ReadHistogram, DecodeUintConfig, DecodeHistograms /   *)
(* DecodeANSCodes and ANSSymbolReader, each as a state machine over one    *)
(* record variable that holds the activation's (or object's) fields.       *)
(*                                                                         *)
(* Machine words wider than TLC's integers are kept as the set of their    *)
(* 1-bit positions (bit 0 is the least significant): shifts, masks and     *)
(* bitwise OR are exact on that form and a width is a cut of the set.       *)
(***************************************************************************)
EXTENDS Integers, Sequences, FiniteSets, TLC

VARIABLES hybrid, histo, ucfg, dec, reader

vars == <<hybrid, histo, ucfg, dec, reader>>

(* ------------------------------------------------------------------ *)
(* Bounds of the model                                                 *)
(* ------------------------------------------------------------------ *)

\* largest split_exponent of the HybridUintConfigs the codec round trip draws
MaxSplitExponent == 4
\* the round trip's values have their low 1-bits among positions 0..MaxLowBit
MaxLowBit == 4

(* ------------------------------------------------------------------ *)
(* Machine words                                                       *)
(* ------------------------------------------------------------------ *)

RECURSIVE ToNat(_)
\* the number a word stands for (the word must fit 31 bits)
ToNat(S) ==
    IF S = {} THEN 0
    ELSE LET i == CHOOSE x \in S : TRUE IN 2^i + ToNat(S \ {i})

\* the word of a number below 2^31
FromNat(n) == {i \in 0..30 : (n \div 2^i) % 2 = 1}

Shl(S, k) == {i + k : i \in S}

Shr(S, k) == {i - k : i \in {j \in S : j >= k}}

\* S & ((1 << k) - 1)
LowBits(S, k) == {i \in S : i < k}

\* conversion to uint32_t
U32(S) == LowBits(S, 32)

\* an unsigned word compared with a number below 2^31
WordLess(S, n) == S \subseteq 0..30 /\ ToNat(S) < n

(* ------------------------------------------------------------------ *)
(* BitReader: the bits still to come (bit 0 is read first) and the      *)
(* number of bits consumed.                                            *)
(* ------------------------------------------------------------------ *)

PeekBits(br, n) == LowBits(br.buf, n)

Consume(br, n) == [buf |-> Shr(br.buf, n), pos |-> br.pos + n]

(* ------------------------------------------------------------------ *)
(* HybridUintConfig                                                    *)
(* ------------------------------------------------------------------ *)

HybridUintConfig(split_exponent, msb_in_token, lsb_in_token) ==
    [split_exponent |-> split_exponent,
     split_token    |-> 2^split_exponent,
     msb_in_token   |-> msb_in_token,
     lsb_in_token   |-> lsb_in_token]

\* the highest 1-bit of a nonzero word
FloorLog2Nonzero(S) == CHOOSE n \in S : \A j \in S : j <= n

\* an encoder whose token leaves out the mantissa's msb_in_token leading bits
EncodeNoMsb(config, value) ==
    IF WordLess(value, config.split_token)
    THEN [token |-> ToNat(value), nbits |-> 0, bits |-> {}]
    ELSE LET n   == FloorLog2Nonzero(value)
             m   == value \ {n}
             msb == config.msb_in_token
             lsb == config.lsb_in_token
         IN [token |-> config.split_token
                         + (n - config.split_exponent) * 2^(msb + lsb)
                         + ToNat(LowBits(m, lsb)),
             nbits |-> n - msb - lsb,
             bits  |-> LowBits(Shr(value, lsb), n - msb - lsb)]

\* HybridUintConfig::Encode: value is a uint32_t word; token and nbits are
\* numbers, bits is a word
Encode(config, value) ==
    IF WordLess(value, config.split_token)
    THEN [token |-> ToNat(value), nbits |-> 0, bits |-> {}]
    ELSE LET n   == FloorLog2Nonzero(value)
             m   == value \ {n}
             msb == config.msb_in_token
             lsb == config.lsb_in_token
         IN [token |-> config.split_token
                         + (n - config.split_exponent) * 2^(msb + lsb)
                         + ToNat(Shr(m, n - msb)) * 2^lsb
                         + ToNat(LowBits(m, lsb)),
             nbits |-> n - msb - lsb,
             bits  |-> LowBits(Shr(value, lsb), n - msb - lsb)]

\* a decoder that forgets the lsb_in_token low bits kept in the token
ReadHybridUintConfigNoLow(config, token, br) ==
    IF token < config.split_token
    THEN [ret |-> FromNat(token), br |-> br]
    ELSE LET msb   == config.msb_in_token
             lsb   == config.lsb_in_token
             nbits == (config.split_exponent - (msb + lsb)
                        + ((token - config.split_token) \div 2^(msb + lsb))) % 32
             tok   == token \div 2^lsb
             bits  == PeekBits(br, nbits)
         IN [ret |-> Shl(Shl(FromNat(2^msb) \cup FromNat(tok % 2^msb), nbits)
                            \cup bits, lsb),
             br  |-> Consume(br, nbits)]

\* ANSSymbolReader::ReadHybridUintConfig: the value (a size_t word) and the
\* bit reader after the call
ReadHybridUintConfig(config, token, br) ==
    IF token < config.split_token
    THEN [ret |-> FromNat(token), br |-> br]
    ELSE LET msb   == config.msb_in_token
             lsb   == config.lsb_in_token
             nbits == (config.split_exponent - (msb + lsb)
                        + ((token - config.split_token) \div 2^(msb + lsb))) % 32
             low   == token % 2^lsb
             tok   == token \div 2^lsb
             bits  == PeekBits(br, nbits)
         IN [ret |-> Shl(Shl(FromNat(2^msb) \cup FromNat(tok % 2^msb), nbits)
                            \cup bits, lsb)
                       \cup FromNat(low),
             br  |-> Consume(br, nbits)]

(* ------------------------------------------------------------------ *)
(* The codec round trip: Encode a value, lay its extra bits before the  *)
(* rest of a stream, decode the token from that stream.                *)
(* ------------------------------------------------------------------ *)

HybridOff == [pc |-> "off"]
HistoOff  == [pc |-> "off"]
UcfgOff   == [pc |-> "off"]
DecOff    == [pc |-> "off"]
ReaderOff == [pc |-> "off"]

\* the configs with msb_in_token + lsb_in_token <= split_exponent
ValidConfigs ==
    {HybridUintConfig(e, m, l) : <<e, m, l>> \in
        {t \in (0..MaxSplitExponent) \X (0..MaxSplitExponent) \X (0..MaxSplitExponent) :
            t[2] + t[3] <= t[1]}}

\* 32-bit values: any low bits, with or without bits 16, 30 and 31; 32; 65535
SampleValues ==
    {lo \cup hi : lo \in SUBSET (0..MaxLowBit), hi \in SUBSET {16, 30, 31}}
        \cup {{5}, 0..15}

\* what follows the extra bits in the stream
SampleTrail == {{}, 0..7}

HybridInit ==
    /\ hybrid \in [pc : {"start"}, config : ValidConfigs, value : SampleValues,
                   trail : SampleTrail]
    /\ histo = HistoOff /\ ucfg = UcfgOff /\ dec = DecOff /\ reader = ReaderOff

HybridEncode ==
    /\ hybrid.pc = "start"
    /\ LET e == Encode(hybrid.config, hybrid.value)
       IN hybrid' = [pc |-> "encoded", config |-> hybrid.config, value |-> hybrid.value,
                     token |-> e.token, nbits |-> e.nbits, bits |-> e.bits,
                     br |-> [buf |-> e.bits \cup Shl(hybrid.trail, e.nbits), pos |-> 0]]
    /\ UNCHANGED <<histo, ucfg, dec, reader>>

HybridDecode ==
    /\ hybrid.pc = "encoded"
    /\ LET d == ReadHybridUintConfig(hybrid.config, hybrid.token, hybrid.br)
       IN hybrid' = [hybrid EXCEPT !.pc = "decoded", !.br = d.br] @@ [ret |-> d.ret]
    /\ UNCHANGED <<histo, ucfg, dec, reader>>

HybridNext == HybridEncode \/ HybridDecode

SpecHybrid == HybridInit /\ [][HybridNext]_vars

\* C2: decoding the token Encode produced, from a reader whose next nbits bits
\* are Encode's bits, returns the encoded value and consumes exactly nbits bits.
C2_RoundTrip ==
    hybrid.pc = "decoded" => (hybrid.ret = hybrid.value /\ hybrid.br.pos = hybrid.nbits)

\* a value with bit 31 set was split into a token and extra bits and decoded
C2_Witness ==
    /\ hybrid.pc = "decoded"
    /\ 31 \in hybrid.value
    /\ hybrid.nbits > 0
    /\ hybrid.config.lsb_in_token > 0
    /\ hybrid.config.msb_in_token > 0

(* ------------------------------------------------------------------ *)
(* Stream bits read as one field: the values a ReadBits(n) may return  *)
(* ------------------------------------------------------------------ *)

\* a ReadBits(n) returns one of the SampleSpan smallest or largest n-bit values
SampleSpan == 1
\* the exponents a variable-length integer draws besides the largest one
MaxVarLenExp == 1
\* the largest alphabet size of the general histograms read
MaxHistoLength == 6

Min(a, b) == IF a < b THEN a ELSE b

BitsSample(n) ==
    (0..(Min(SampleSpan, 2^n) - 1)) \cup ((2^n - Min(SampleSpan, 2^n))..(2^n - 1))

(* ------------------------------------------------------------------ *)
(* DecodeVarLenUint8 / DecodeVarLenUint16                               *)
(* ------------------------------------------------------------------ *)

\* the fields of one variable-length integer: the presence bit, the exponent
\* (expbits wide) and the mantissa; exps are the exponents drawn
VarLenInputs(expbits, exps) ==
    {<<0, 0, 0>>} \cup
    UNION {{<<1, n, x>> : x \in BitsSample(n)} : n \in exps \cap (0..(2^expbits - 1))}

\* the value decoded from the fields <<presence, nbits, mantissa>>
DecodeVarLenUint(in) ==
    IF in[1] = 1
    THEN IF in[2] = 0 THEN 1 ELSE in[3] + 2^in[2]
    ELSE 0

\* the bits the fields take in the stream
VarLenConsumed(expbits, in) == IF in[1] = 1 THEN 1 + expbits + in[2] ELSE 1

DecodeVarLenUint8(in) == DecodeVarLenUint(in)

DecodeVarLenUint16(in) == DecodeVarLenUint(in)

\* small exponents, and the largest one of the 3-bit exponent
VarLen8Inputs == VarLenInputs(3, (0..MaxVarLenExp) \cup {7})

\* the fields of an RLE length or of a general histogram's alphabet size:
\* those that keep the alphabet within MaxHistoLength
VarLen8SmallInputs ==
    {in \in VarLenInputs(3, 0..2) : DecodeVarLenUint(in) + 3 <= MaxHistoLength}

(* ------------------------------------------------------------------ *)
(* ReadHistogram                                                       *)
(* ------------------------------------------------------------------ *)

ANS_LOG_TAB_SIZE == 12

ANS_TAB_SIZE == 2^ANS_LOG_TAB_SIZE

huff ==
    <<
       <<3, 10>>, <<7, 12>>, <<3, 7>>, <<4, 3>>, <<3, 6>>, <<3, 8>>, <<3, 9>>, <<4, 5>>,
       <<3, 10>>, <<4, 4>>, <<3, 7>>, <<4, 1>>, <<3, 6>>, <<3, 8>>, <<3, 9>>, <<4, 2>>,
       <<3, 10>>, <<5, 0>>, <<3, 7>>, <<4, 3>>, <<3, 6>>, <<3, 8>>, <<3, 9>>, <<4, 5>>,
       <<3, 10>>, <<4, 4>>, <<3, 7>>, <<4, 1>>, <<3, 6>>, <<3, 8>>, <<3, 9>>, <<4, 2>>,
       <<3, 10>>, <<6, 11>>, <<3, 7>>, <<4, 3>>, <<3, 6>>, <<3, 8>>, <<3, 9>>, <<4, 5>>,
       <<3, 10>>, <<4, 4>>, <<3, 7>>, <<4, 1>>, <<3, 6>>, <<3, 8>>, <<3, 9>>, <<4, 2>>,
       <<3, 10>>, <<5, 0>>, <<3, 7>>, <<4, 3>>, <<3, 6>>, <<3, 8>>, <<3, 9>>, <<4, 5>>,
       <<3, 10>>, <<4, 4>>, <<3, 7>>, <<4, 1>>, <<3, 6>>, <<3, 8>>, <<3, 9>>, <<4, 2>>,
       <<3, 10>>, <<7, 13>>, <<3, 7>>, <<4, 3>>, <<3, 6>>, <<3, 8>>, <<3, 9>>, <<4, 5>>,
       <<3, 10>>, <<4, 4>>, <<3, 7>>, <<4, 1>>, <<3, 6>>, <<3, 8>>, <<3, 9>>, <<4, 2>>,
       <<3, 10>>, <<5, 0>>, <<3, 7>>, <<4, 3>>, <<3, 6>>, <<3, 8>>, <<3, 9>>, <<4, 5>>,
       <<3, 10>>, <<4, 4>>, <<3, 7>>, <<4, 1>>, <<3, 6>>, <<3, 8>>, <<3, 9>>, <<4, 2>>,
       <<3, 10>>, <<6, 11>>, <<3, 7>>, <<4, 3>>, <<3, 6>>, <<3, 8>>, <<3, 9>>, <<4, 5>>,
       <<3, 10>>, <<4, 4>>, <<3, 7>>, <<4, 1>>, <<3, 6>>, <<3, 8>>, <<3, 9>>, <<4, 2>>,
       <<3, 10>>, <<5, 0>>, <<3, 7>>, <<4, 3>>, <<3, 6>>, <<3, 8>>, <<3, 9>>, <<4, 5>>,
       <<3, 10>>, <<4, 4>>, <<3, 7>>, <<4, 1>>, <<3, 6>>, <<3, 8>>, <<3, 9>>, <<4, 2>>
    >>

\* the logcount codes drawn: a zero count, a count of one, the largest count
\* with extra bits, and the RLE escape
LogcountSample == {0, 1, ANS_LOG_TAB_SIZE, ANS_LOG_TAB_SIZE + 1}

\* the 7-bit windows PeekFixedBits<7> may show: those whose code is drawn
HuffIdxSample == {idx \in 0..127 : huff[idx + 1][2] \in LogcountSample}

\* length entries, total_count spread evenly, the remainder over the first ones
CreateFlatHistogram(length, total_count) ==
    [j \in 0..(length - 1) |->
        (total_count \div length) + (IF j < total_count % length THEN 1 ELSE 0)]

\* the number of extra bits of a count with the given logcount
GetPopulationCountPrecision(logcount, shift) ==
    LET r == Min(logcount, shift - ((ANS_LOG_TAB_SIZE - logcount) \div 2))
    IN IF r < 0 THEN 0 ELSE r

Zeros(length) == [j \in 0..(length - 1) |-> 0]

RECURSIVE SumRange(_, _, _)
\* counts[lo] + ... + counts[hi], by halves
SumRange(counts, lo, hi) ==
    IF lo > hi THEN 0
    ELSE IF lo = hi THEN counts[lo]
    ELSE LET mid == (lo + hi) \div 2
         IN SumRange(counts, lo, mid) + SumRange(counts, mid + 1, hi)

\* counts[0] + ... + counts[n - 1]
SumTo(counts, n) == SumRange(counts, 0, n - 1)

\* the histogram's return: on failure the vector is left as it was built
HistoDone(h, ok) == [h EXCEPT !.pc = "done", !.ok = ok]

\* return JXL_FAILURE(message)
HistoFailure(h, message) == [h EXCEPT !.pc = "done", !.ok = FALSE, !.error = message]

HistoStart ==
    [pc |-> "start", precision_bits |-> ANS_LOG_TAB_SIZE, encoding |-> "none",
     counts |-> << >>, logcounts |-> << >>, same |-> << >>, length |-> 0,
     omit_log |-> -1, omit_pos |-> -1, shift |-> 0, i |-> 0, prev |-> 0,
     numsame |-> 0, total_count |-> 0, pos |-> 0, ok |-> FALSE,
     symbols |-> << >>, first |-> 0, visited |-> {}, error |-> "none",
     extras |-> << >>]

\* ReadHistogram is entered with an empty counts vector (DecodeANSCodes) and
\* precision_bits = ANS_LOG_TAB_SIZE
HistoInit ==
    /\ histo = HistoStart
    /\ hybrid = HybridOff /\ ucfg = UcfgOff /\ dec = DecOff /\ reader = ReaderOff

\* the second count taken as the first one
SecondSymbolCountSame(precision_bits, first) == first

\* (*counts)[symbols[1]] = (1 << precision_bits) - (*counts)[symbols[0]]
SecondSymbolCount(precision_bits, first) == 2^precision_bits - first

\* the symbols of a simple histogram: those of VarLen8Inputs, and 5 and 7
SimpleSymbolInputs == VarLen8Inputs \cup {<<1, 2, 1>>, <<1, 2, 3>>}

\* the precision_bits-wide count of the first of two symbols
SimpleCountSample(precision_bits) ==
    BitsSample(precision_bits) \cup ({1000} \cap (0..(2^precision_bits - 1)))

\* simple_code == 1: one or two symbols
HistoSimple ==
    /\ histo.pc = "start"
    /\ \E num_symbols \in 1..2, in0 \in SimpleSymbolInputs, in1 \in SimpleSymbolInputs,
          first \in SimpleCountSample(histo.precision_bits) :
         LET s0 == DecodeVarLenUint8(in0)
             s1 == IF num_symbols = 2 THEN DecodeVarLenUint8(in1) ELSE 0
             max_symbol == IF s1 > s0 THEN s1 ELSE s0
             read == 2 + VarLenConsumed(3, in0)
                       + (IF num_symbols = 2 THEN VarLenConsumed(3, in1) ELSE 0)
             h == [histo EXCEPT !.encoding = "simple", !.length = max_symbol + 1,
                                !.counts = Zeros(max_symbol + 1),
                                !.symbols = IF num_symbols = 2 THEN <<s0, s1>>
                                            ELSE <<s0>>]
         IN \/ /\ num_symbols = 1
               /\ histo' = HistoDone(
                     [h EXCEPT !.counts[s0] = 2^histo.precision_bits,
                               !.pos = read], TRUE)
            \/ /\ num_symbols = 2
               /\ s0 = s1
               /\ histo' = HistoDone([h EXCEPT !.pos = read], FALSE)
            \/ /\ num_symbols = 2
               /\ s0 # s1
               /\ histo' = HistoDone(
                     [h EXCEPT !.counts[s0] = first,
                               !.counts[s1] = SecondSymbolCount(histo.precision_bits, first),
                               !.first = first,
                               !.pos = read + histo.precision_bits], TRUE)
    /\ UNCHANGED <<hybrid, ucfg, dec, reader>>

\* simple_code == 0, is_flat == 1
HistoFlat ==
    /\ histo.pc = "start"
    /\ \E in \in VarLen8Inputs :
         LET alphabet_size == DecodeVarLenUint8(in) + 1
             read == 2 + VarLenConsumed(3, in)
         IN IF alphabet_size = 0
            THEN histo' = HistoFailure([histo EXCEPT !.encoding = "flat", !.pos = read],
                                       "Invalid alphabet size for flat histogram.")
            ELSE histo' = HistoDone(
                    [histo EXCEPT !.encoding = "flat", !.length = alphabet_size,
                                  !.counts = CreateFlatHistogram(alphabet_size,
                                                                 2^histo.precision_bits),
                                  !.pos = read], TRUE)
    /\ UNCHANGED <<hybrid, ucfg, dec, reader>>

\* simple_code == 0, is_flat == 0: shift, then the alphabet size
HistoGeneral ==
    /\ histo.pc = "start"
    /\ \E log \in 0..FloorLog2Nonzero(FromNat(ANS_LOG_TAB_SIZE + 1)) :
       \E bits \in BitsSample(log), in \in VarLen8SmallInputs :
         LET upper_bound_log == FloorLog2Nonzero(FromNat(ANS_LOG_TAB_SIZE + 1))
             unary  == IF log < upper_bound_log THEN log + 1 ELSE log
             shift  == ToNat(FromNat(bits) \cup FromNat(2^log)) - 1
             length == DecodeVarLenUint8(in) + 3
         IN IF shift > ANS_LOG_TAB_SIZE + 1
            THEN histo' = HistoFailure(
                    [histo EXCEPT !.encoding = "general", !.shift = shift,
                                  !.pos = 2 + unary + log], "Invalid shift value")
            ELSE histo' = [histo EXCEPT !.pc = "logcounts", !.encoding = "general",
                                        !.shift = shift, !.length = length,
                                        !.counts = Zeros(length),
                                        !.logcounts = Zeros(length),
                                        !.same = Zeros(length), !.i = 0,
                                        !.extras = Zeros(length),
                                        !.pos = 2 + unary + log + VarLenConsumed(3, in)]
    /\ UNCHANGED <<hybrid, ucfg, dec, reader>>

\* a later logcount equal to the maximum replaces it
NewMaximumOrEqual(code, omit_log) == code >= omit_log

\* logcounts[i] > omit_log
NewMaximum(code, omit_log) == code > omit_log

\* one iteration of the loop over logcounts (first pass)
HistoLogcount ==
    /\ histo.pc = "logcounts"
    /\ histo.i < histo.length
    /\ \E idx \in HuffIdxSample, in \in VarLen8SmallInputs :
         LET i    == histo.i
             code == huff[idx + 1][2]
             h    == [histo EXCEPT !.logcounts[i] = code,
                                   !.visited = @ \cup {i},
                                   !.pos = @ + huff[idx + 1][1]]
         IN IF code = ANS_LOG_TAB_SIZE + 1
            THEN LET rle_length == DecodeVarLenUint8(in)
                 IN histo' = [h EXCEPT !.same[i] = rle_length + 5,
                                       !.i = i + rle_length + 3 + 1,
                                       !.pos = @ + VarLenConsumed(3, in)]
            ELSE /\ in = <<0, 0, 0>>
                 /\ histo' = IF NewMaximum(code, histo.omit_log)
                             THEN [h EXCEPT !.omit_log = code, !.omit_pos = i, !.i = i + 1]
                             ELSE [h EXCEPT !.i = i + 1]
    /\ UNCHANGED <<hybrid, ucfg, dec, reader>>

\* the second check after the first pass, with the constant the code names
OmitFollowedByEscape(logcounts, length, omit_pos) ==
    /\ omit_pos + 1 < length
    /\ logcounts[omit_pos + 1] = ANS_TAB_SIZE + 1

\* the checks between the two passes
HistoCheckOmit ==
    /\ histo.pc = "logcounts"
    /\ histo.i >= histo.length
    /\ IF histo.omit_pos < 0
       THEN histo' = HistoFailure(histo, "Invalid histogram.")
       ELSE IF OmitFollowedByEscape(histo.logcounts, histo.length, histo.omit_pos)
            THEN histo' = HistoFailure(histo, "Invalid histogram.")
            ELSE histo' = [histo EXCEPT !.pc = "counts", !.i = 0, !.prev = 0,
                                        !.numsame = 0, !.total_count = 0]
    /\ UNCHANGED <<hybrid, ucfg, dec, reader>>

\* the extra bits of a count: all zeros or all ones
ExtraBitsSample(bitcount) == {0, 2^bitcount - 1}

\* a run that repeats a zero count
RunCountZero(counts, i) == 0

\* prev = i > 0 ? (*counts)[i - 1] : 0
RunCount(counts, i) == IF i > 0 THEN counts[i - 1] ELSE 0

\* the count with the extra bits added unshifted
PopulationCountUnshifted(code, bitcount, extra) == 2^(code - 1) + extra

\* (1 << (code - 1)) + (ReadBits(bitcount) << (code - 1 - bitcount))
PopulationCount(code, bitcount, extra) ==
    2^(code - 1) + extra * 2^(code - 1 - bitcount)

\* one iteration of the loop that rebuilds the counts (second pass)
HistoCount ==
    /\ histo.pc = "counts"
    /\ histo.i < histo.length
    /\ LET i       == histo.i
           marked  == histo.same[i] # 0
           numsame == IF marked THEN histo.same[i] - 1 ELSE histo.numsame
           prev    == IF marked THEN RunCount(histo.counts, i) ELSE histo.prev
           h       == [histo EXCEPT !.numsame = numsame, !.prev = prev, !.i = i + 1]
           code    == histo.logcounts[i]
       IN IF numsame > 0
          THEN histo' = [h EXCEPT !.counts[i] = prev, !.numsame = numsame - 1,
                                  !.total_count = @ + prev]
          ELSE IF i = histo.omit_pos \/ code = 0
               THEN histo' = h
               ELSE IF code = 1
                    THEN histo' = [h EXCEPT !.counts[i] = 1, !.total_count = @ + 1]
                    ELSE LET bitcount == GetPopulationCountPrecision(code - 1, histo.shift)
                         IN \E extra \in ExtraBitsSample(bitcount) :
                              LET c == PopulationCount(code, bitcount, extra)
                              IN histo' = [h EXCEPT !.counts[i] = c,
                                                    !.extras[i] = extra,
                                                    !.total_count = @ + c,
                                                    !.pos = @ + bitcount]
    /\ UNCHANGED <<hybrid, ucfg, dec, reader>>

\* the omitted count, one too small
OmittedCountShort(precision_bits, total_count) == 2^precision_bits - total_count - 1

\* (*counts)[omit_pos] = (1 << precision_bits) - total_count
OmittedCount(precision_bits, total_count) == 2^precision_bits - total_count

\* a check that accepts an omitted count of zero
InvalidCountBelowZero(c) == c < 0

\* if ((*counts)[omit_pos] <= 0)
InvalidCount(c) == c <= 0

\* the omitted count is filled in and checked
HistoFinish ==
    /\ histo.pc = "counts"
    /\ histo.i >= histo.length
    /\ LET c == OmittedCount(histo.precision_bits, histo.total_count)
           h == [histo EXCEPT !.counts[histo.omit_pos] = c]
       IN histo' = IF InvalidCount(c)
                   THEN HistoFailure(h, "Invalid histogram count.")
                   ELSE HistoDone(h, TRUE)
    /\ UNCHANGED <<hybrid, ucfg, dec, reader>>

HistoNext ==
    \/ HistoSimple
    \/ HistoFlat
    \/ HistoGeneral
    \/ HistoLogcount
    \/ HistoCheckOmit
    \/ HistoCount
    \/ HistoFinish

SpecHist == HistoInit /\ [][HistoNext]_vars

\* C1: every successful ReadHistogram leaves counts all non-negative and
\* summing exactly to 2^precision_bits, whichever encoding was selected.
C1_CountsSum ==
    (histo.pc = "done" /\ histo.ok) =>
        /\ \A j \in 0..(histo.length - 1) : histo.counts[j] >= 0
        /\ SumTo(histo.counts, histo.length) = 2^histo.precision_bits

\* a general histogram with an RLE run and three non-zero counts was accepted
C1_Witness ==
    /\ histo.pc = "done" /\ histo.ok
    /\ histo.encoding = "general"
    /\ \E j \in 0..(histo.length - 1) : histo.same[j] # 0
    /\ Cardinality({j \in 0..(histo.length - 1) : histo.counts[j] > 0}) >= 3

\* C6: a general histogram with no omit_pos, or whose position after omit_pos
\* carries the RLE escape ANS_LOG_TAB_SIZE + 1, is a decode error.
C6_EscapeAfterOmitFails ==
    (/\ histo.pc = "done"
     /\ histo.encoding = "general"
     /\ histo.shift <= ANS_LOG_TAB_SIZE + 1
     /\ \/ histo.omit_pos < 0
        \/ /\ histo.omit_pos + 1 < histo.length
           /\ histo.logcounts[histo.omit_pos + 1] = ANS_LOG_TAB_SIZE + 1)
    => ~histo.ok

(* ------------------------------------------------------------------ *)
(* DecodeUintConfig                                                    *)
(* ------------------------------------------------------------------ *)

\* log_alpha_size of the prefix-code path
kMaxHuffmanBits == 15

\* the smallest k with 2^k >= x, for x >= 1
CeilLog2Nonzero(x) == CHOOSE k \in 0..31 : 2^k >= x /\ \A j \in 0..(k - 1) : 2^j < x

\* the fields DecodeUintConfig may read as <<split_exponent, msb_in_token,
\* lsb_in_token>>; a field the code does not read is 0
UintConfigInputs(log_alpha_size) ==
    UNION {
      IF se = log_alpha_size
      THEN {<<se, 0, 0>>}
      ELSE UNION {
             IF msb > se
             THEN {<<se, msb, 0>>}
             ELSE {<<se, msb, lsb>> :
                     lsb \in 0..(2^CeilLog2Nonzero(se - msb + 1) - 1)}
             : msb \in 0..(2^CeilLog2Nonzero(se + 1) - 1)}
      : se \in 0..(2^CeilLog2Nonzero(log_alpha_size + 1) - 1)}

\* DecodeUintConfig without its last check
DecodeUintConfigUnchecked(log_alpha_size, uint_config, in) ==
    LET split_exponent == in[1]
        nbits0 == CeilLog2Nonzero(log_alpha_size + 1)
        nbits1 == CeilLog2Nonzero(split_exponent + 1)
        msb_in_token == IF split_exponent # log_alpha_size THEN in[2] ELSE 0
        nbits2 == CeilLog2Nonzero(split_exponent - msb_in_token + 1)
        lsb_in_token == IF split_exponent # log_alpha_size THEN in[3] ELSE 0
    IN IF split_exponent # log_alpha_size /\ msb_in_token > split_exponent
       THEN [ok |-> FALSE, uint_config |-> uint_config, read |-> nbits0 + nbits1,
             split_exponent |-> split_exponent, msb_in_token |-> msb_in_token,
             lsb_in_token |-> 0]
       ELSE [ok |-> TRUE,
             uint_config |-> HybridUintConfig(split_exponent, msb_in_token, lsb_in_token),
             read |-> IF split_exponent # log_alpha_size
                      THEN nbits0 + nbits1 + nbits2 ELSE nbits0,
             split_exponent |-> split_exponent, msb_in_token |-> msb_in_token,
             lsb_in_token |-> lsb_in_token]

\* DecodeUintConfig on the fields in: the status, the caller's config after the
\* call, the bits read and the locals
DecodeUintConfig(log_alpha_size, uint_config, in) ==
    LET split_exponent == in[1]
        nbits0 == CeilLog2Nonzero(log_alpha_size + 1)
        nbits1 == CeilLog2Nonzero(split_exponent + 1)
        msb_in_token == IF split_exponent # log_alpha_size THEN in[2] ELSE 0
        nbits2 == CeilLog2Nonzero(split_exponent - msb_in_token + 1)
        lsb_in_token == IF split_exponent # log_alpha_size THEN in[3] ELSE 0
        read == IF split_exponent # log_alpha_size
                THEN nbits0 + nbits1 + nbits2 ELSE nbits0
    IN IF split_exponent # log_alpha_size /\ msb_in_token > split_exponent
       THEN [ok |-> FALSE, uint_config |-> uint_config, read |-> nbits0 + nbits1,
             split_exponent |-> split_exponent, msb_in_token |-> msb_in_token,
             lsb_in_token |-> 0]
       ELSE IF lsb_in_token + msb_in_token > split_exponent
       THEN [ok |-> FALSE, uint_config |-> uint_config, read |-> read,
             split_exponent |-> split_exponent, msb_in_token |-> msb_in_token,
             lsb_in_token |-> lsb_in_token]
       ELSE [ok |-> TRUE,
             uint_config |-> HybridUintConfig(split_exponent, msb_in_token, lsb_in_token),
             read |-> read,
             split_exponent |-> split_exponent, msb_in_token |-> msb_in_token,
             lsb_in_token |-> lsb_in_token]

\* the log_alpha_size values DecodeHistograms passes: 8 for the LZ77 length
\* config, 5..8 for ANS, kMaxHuffmanBits for prefix codes
LogAlphaSizes == (5..8) \cup {kMaxHuffmanBits}

\* the configs the caller's slot may hold before the call: a default
\* HybridUintConfig and LZ77Params' length_uint_config{0, 0, 0}
PriorConfigs == {HybridUintConfig(4, 2, 0), HybridUintConfig(0, 0, 0)}

UcfgInit ==
    /\ ucfg \in [pc : {"start"}, log_alpha_size : LogAlphaSizes, uint_config : PriorConfigs]
    /\ hybrid = HybridOff /\ histo = HistoOff /\ dec = DecOff /\ reader = ReaderOff

UcfgDecode ==
    /\ ucfg.pc = "start"
    /\ \E in \in UintConfigInputs(ucfg.log_alpha_size) :
         LET r == DecodeUintConfig(ucfg.log_alpha_size, ucfg.uint_config, in)
         IN ucfg' = [pc |-> "done", log_alpha_size |-> ucfg.log_alpha_size,
                     prior |-> ucfg.uint_config, uint_config |-> r.uint_config,
                     ok |-> r.ok, pos |-> r.read,
                     split_exponent |-> r.split_exponent,
                     msb_in_token |-> r.msb_in_token,
                     lsb_in_token |-> r.lsb_in_token]
    /\ UNCHANGED <<hybrid, histo, dec, reader>>

UcfgNext == UcfgDecode

SpecUintConfig == UcfgInit /\ [][UcfgNext]_vars

\* C8: DecodeUintConfig succeeds exactly when the decoded msb_in_token +
\* lsb_in_token <= split_exponent; on success the stored config has
\* split_token = 2^split_exponent and msb + lsb <= split_exponent (msb = lsb = 0
\* and no bits beyond split_exponent's when split_exponent = log_alpha_size);
\* on failure the caller's config is as it was.
C8_UintConfig ==
    ucfg.pc = "done" =>
        /\ ucfg.ok <=> (ucfg.msb_in_token + ucfg.lsb_in_token <= ucfg.split_exponent)
        /\ ucfg.ok =>
             /\ ucfg.uint_config.split_exponent = ucfg.split_exponent
             /\ ucfg.uint_config.split_token = 2^ucfg.split_exponent
             /\ ucfg.uint_config.msb_in_token = ucfg.msb_in_token
             /\ ucfg.uint_config.lsb_in_token = ucfg.lsb_in_token
             /\ ucfg.uint_config.msb_in_token + ucfg.uint_config.lsb_in_token
                  <= ucfg.uint_config.split_exponent
             /\ ucfg.split_exponent = ucfg.log_alpha_size =>
                  /\ ucfg.uint_config.msb_in_token = 0
                  /\ ucfg.uint_config.lsb_in_token = 0
                  /\ ucfg.pos = CeilLog2Nonzero(ucfg.log_alpha_size + 1)
        /\ ~ucfg.ok => ucfg.uint_config = ucfg.prior

\* the last check rejected a config whose lsb_in_token was read
C8_Witness ==
    /\ ucfg.pc = "done"
    /\ ~ucfg.ok
    /\ ucfg.msb_in_token <= ucfg.split_exponent
    /\ ucfg.lsb_in_token > 0
    /\ ucfg.uint_config = ucfg.prior

(* ------------------------------------------------------------------ *)
(* DecodeHistograms / DecodeUintConfigs / DecodeANSCodes               *)
(* ------------------------------------------------------------------ *)

\* the num_contexts a caller passes: one context, and more than one
NumContextsSample == {1, 2}

\* the fields of a HybridUintConfig drawn when a set of histograms is decoded:
\* split_exponent = log_alpha_size, the default {4, 2, 0}, msb_in_token above
\* split_exponent, and msb_in_token + lsb_in_token above split_exponent
UintConfigSample(log_alpha_size) ==
    {<<log_alpha_size, 0, 0>>, <<4, 2, 0>>, <<4, 5, 0>>, <<4, 2, 3>>}

\* the fields LZ77Params::VisitFields reads when enabled: min_symbol (224 is
\* Val(224), 8 the least BitsOffset(15, 8)) and min_length (Val(3))
LZ77Fields == [min_symbol : {224, 8}, min_length : {3}]

\* LZ77Params as Bundle::Init leaves it
LZ77Default ==
    [enabled |-> FALSE, min_symbol |-> 224, min_length |-> 3,
     length_uint_config |-> HybridUintConfig(0, 0, 0),
     nonserialized_distance_context |-> 0]

\* a default-constructed ANSCode
ANSCodeFresh ==
    [alias_tables |-> << >>, huffman_data |-> << >>, uint_config |-> << >>,
     use_prefix_code |-> FALSE, log_alpha_size |-> 0, lz77 |-> LZ77Default]

\* what a ReadHistogram call leaves: its status and counts.size()
HistogramResults ==
    [ok : BOOLEAN, size : {1, 2^5, 2^5 + 1, 2^8, 2^8 + 2}]

\* the fields of an alphabet size: the two smallest exponents and the largest
VarLen16Inputs == VarLenInputs(4, {0, 1, 15})

\* the context maps DecodeContextMap may produce for num_contexts contexts:
\* entries below num_histograms, the largest of them num_histograms - 1
ContextMaps(num_contexts) ==
    {cm \in UNION {[1..num_contexts -> 0..(nh - 1)] : nh \in 1..num_contexts} :
        \A k \in 0..(num_contexts - 1) :
            (\E j \in 1..num_contexts : cm[j] > k) => (\E j \in 1..num_contexts : cm[j] = k)}

NumClusters(cm) == 1 + (CHOOSE m \in {cm[j] : j \in DOMAIN cm} :
                           \A j \in DOMAIN cm : cm[j] <= m)

\* return of DecodeHistograms, DecodeANSCodes, DecodeUintConfigs: the status
\* and, as failed, the sub-field whose decoding failed
DecDone(d, ok, failed) == [d EXCEPT !.pc = "done", !.ok = ok, !.failed = failed]

\* std::vector::resize(n): the elements kept, new ones value-initialised
Resize(v, n, fresh) == [j \in 1..n |-> IF j <= Len(v) THEN v[j] ELSE fresh]

DecRead(d, field) == [d EXCEPT !.reads = Append(@, field)]

\* a read of `bits` bits through `in`: it starts at in->TotalBitsConsumed()
DecSpan(d, field, index, bits) ==
    [DecRead(d, field) EXCEPT
        !.spans = Append(@, [field |-> field, index |-> index,
                             start |-> d.pos, end |-> d.pos + bits]),
        !.pos = @ + bits]

\* the bits Bundle::Read takes for LZ77Params: the Bool, and when enabled the
\* U32 selectors of min_symbol and min_length with the 15 bits of BitsOffset(15, 8)
LZ77ParamsBits(enabled, f) ==
    IF enabled THEN 1 + (IF f.min_symbol = 224 THEN 2 ELSE 2 + 15) + 2 ELSE 1

\* the bits of a simple context map: is_simple, bits_per_entry, the entries
ContextMapBits(cm) == 1 + 2 + Len(cm) * CeilLog2Nonzero(NumClusters(cm))

\* the bits of the shortest histogram ReadHistogram accepts: simple_code,
\* num_symbols - 1 and a one-bit DecodeVarLenUint8
HistogramBits == 3

\* the bits of a simple Huffman code of one symbol: the 2-bit kind, the 2-bit
\* symbol count, the symbol in the bits alphabet_size - 1 takes
HuffmanBits(alphabet_size) == 2 + 2 + CeilLog2Nonzero(alphabet_size)

kBitsPerByte == 8

\* BrunsliBitReaderInit(&br): no byte loaded, no bit held
BrunsliBitReaderInit == [data |-> 0, consumed_bytes |-> 0, num_bits_ |-> 0]

\* BrunsliBitReaderRead(&br, n): whole bytes are loaded until n bits are held
BrunsliBitReaderRead(br, n) ==
    LET load == IF br.num_bits_ >= n THEN 0 ELSE (n - br.num_bits_ + 7) \div 8
    IN [br EXCEPT !.consumed_bytes = @ + load,
                  !.num_bits_ = @ + 8 * load - n]

\* the sub-reader over the bytes from data on, the consumed bits skipped
BrunsliBitReaderResume(pos) ==
    BrunsliBitReaderRead([BrunsliBitReaderInit EXCEPT
                             !.data = pos \div kBitsPerByte], pos % kBitsPerByte)

\* the stream position of the sub-reader's next bit
SubPosition(br) == (br.data + br.consumed_bytes) * kBitsPerByte - br.num_bits_

\* a read of `bits` bits through the sub-reader
DecSubSpan(d, field, index, bits) ==
    [DecRead(d, field) EXCEPT
        !.spans = Append(@, [field |-> field, index |-> index,
                             start |-> SubPosition(d.sub),
                             end |-> SubPosition(d.sub) + bits]),
        !.sub = BrunsliBitReaderRead(@, bits)]

\* the resynchronisation with the bit offset left out
HuffmanSkipWithoutOffset(consumed_bytes, num_unused_bits, pos) ==
    consumed_bytes * kBitsPerByte - num_unused_bits

\* in->SkipBits(consumed_bytes * kBitsPerByte - num_unused_bits - pos)
HuffmanSkip(consumed_bytes, num_unused_bits, pos) ==
    consumed_bytes * kBitsPerByte - num_unused_bits - pos


DecInit ==
    /\ dec \in [pc : {"lz77"}, disallow_lz77 : BOOLEAN, num_contexts : NumContextsSample,
                code : {ANSCodeFresh}, context_map : {<< >>}, num_histograms : {1},
                i : {0}, c : {0}, alphabet_sizes : {<< >>}, decoded_sizes : {<< >>},
                reads : {<< >>}, ok : {FALSE}, failed : {"none"}, calls : {1},
                spans : {<< >>}, pos : {0}, sub : {BrunsliBitReaderInit}]
    /\ hybrid = HybridOff /\ histo = HistoOff /\ ucfg = UcfgOff /\ reader = ReaderOff

\* the policy check, switched off
Lz77DisallowedIgnored(enabled, disallow_lz77) == FALSE

\* code->lz77.enabled && disallow_lz77
Lz77Disallowed(enabled, disallow_lz77) == enabled /\ disallow_lz77

\* Bundle::Read(br, &code->lz77), and the rest of the prologue when LZ77 is off
DecLZ77Params ==
    /\ dec.pc = "lz77"
    /\ \E bundle_ok \in BOOLEAN, enabled \in BOOLEAN, f \in LZ77Fields :
         LET d == DecSpan(dec, "lz77", 0, LZ77ParamsBits(enabled, f))
             lz77 == IF enabled
                     THEN [dec.code.lz77 EXCEPT !.enabled = TRUE,
                                                !.min_symbol = f.min_symbol,
                                                !.min_length = f.min_length]
                     ELSE [dec.code.lz77 EXCEPT !.enabled = FALSE]
         IN /\ ~enabled => f = [min_symbol |-> 224, min_length |-> 3]
            /\ ~bundle_ok => (~enabled /\ f = [min_symbol |-> 224, min_length |-> 3])
            /\ IF ~bundle_ok
               THEN dec' = DecDone(d, FALSE, "lz77")
               ELSE IF enabled
               THEN dec' = [d EXCEPT !.code.lz77 = lz77, !.num_contexts = @ + 1,
                                     !.pc = "length_config"]
               ELSE IF Lz77Disallowed(enabled, dec.disallow_lz77)
               THEN dec' = DecDone([d EXCEPT !.code.lz77 = lz77], FALSE, "none")
               ELSE dec' = [d EXCEPT !.code.lz77 = lz77, !.pc = "context_map"]
    /\ UNCHANGED <<hybrid, histo, ucfg, reader>>

\* DecodeUintConfig(8, &code->lz77.length_uint_config, br), then the policy check
DecLengthConfig ==
    /\ dec.pc = "length_config"
    /\ \E in \in UintConfigSample(8) :
         LET r == DecodeUintConfig(8, dec.code.lz77.length_uint_config, in)
             d == [DecSpan(dec, "length_config", 0, r.read) EXCEPT
                      !.code.lz77.length_uint_config = r.uint_config]
         IN IF ~r.ok
            THEN dec' = DecDone(d, FALSE, "length_config")
            ELSE IF Lz77Disallowed(dec.code.lz77.enabled, dec.disallow_lz77)
            THEN dec' = DecDone(d, FALSE, "none")
            ELSE dec' = [d EXCEPT !.pc = "context_map"]
    /\ UNCHANGED <<hybrid, histo, ucfg, reader>>

\* context_map->resize(num_contexts); DecodeContextMap when num_contexts > 1;
\* the distance context
DecContextMap ==
    /\ dec.pc = "context_map"
    /\ IF dec.num_contexts > 1
       THEN \E map_ok \in BOOLEAN, cm \in ContextMaps(dec.num_contexts) :
              LET d == DecSpan(dec, "context_map", 0, ContextMapBits(cm))
              IN IF ~map_ok
                 THEN /\ cm = [j \in 1..dec.num_contexts |-> 0]
                      /\ dec' = DecDone([d EXCEPT !.context_map = cm], FALSE, "context_map")
                 ELSE dec' = [d EXCEPT !.context_map = cm,
                                       !.num_histograms = NumClusters(cm),
                                       !.code.lz77.nonserialized_distance_context =
                                           cm[dec.num_contexts],
                                       !.pc = "code_type"]
       ELSE LET cm == Resize(dec.context_map, 1, 0)
            IN dec' = [dec EXCEPT !.context_map = cm,
                                  !.code.lz77.nonserialized_distance_context = cm[1],
                                  !.pc = "code_type"]
    /\ UNCHANGED <<hybrid, histo, ucfg, reader>>

\* use_prefix_code, log_alpha_size, uint_config.resize(num_histograms)
DecCodeType ==
    /\ dec.pc = "code_type"
    /\ \E use_prefix_code \in BOOLEAN, bits \in 0..3 :
         /\ use_prefix_code => bits = 0
         /\ dec' = [(IF use_prefix_code
                     THEN DecSpan(dec, "use_prefix_code", 0, 1)
                     ELSE DecSpan(DecSpan(dec, "use_prefix_code", 0, 1),
                                  "log_alpha_size", 0, 2))
                    EXCEPT !.code.use_prefix_code = use_prefix_code,
                           !.code.log_alpha_size =
                               IF use_prefix_code THEN kMaxHuffmanBits ELSE bits + 5,
                           !.code.uint_config =
                               Resize(@, dec.num_histograms, HybridUintConfig(4, 2, 0)),
                           !.i = 0,
                           !.pc = "uint_configs"]
    /\ UNCHANGED <<hybrid, histo, ucfg, reader>>

\* DecodeUintConfigs: one iteration
DecUintConfig ==
    /\ dec.pc = "uint_configs"
    /\ dec.i < dec.num_histograms
    /\ \E in \in UintConfigSample(dec.code.log_alpha_size) :
         LET r == DecodeUintConfig(dec.code.log_alpha_size,
                                   dec.code.uint_config[dec.i + 1], in)
             d == [DecSpan(dec, "uint_config", dec.i, r.read) EXCEPT
                      !.code.uint_config[dec.i + 1] = r.uint_config]
         IN IF ~r.ok
            THEN dec' = DecDone(d, FALSE, "uint_config")
            ELSE dec' = [d EXCEPT !.i = @ + 1]
    /\ UNCHANGED <<hybrid, histo, ucfg, reader>>

\* DecodeANSCodes is entered: the tables are sized for num_histograms
DecANSCodesEnter ==
    /\ dec.pc = "uint_configs"
    /\ dec.i = dec.num_histograms
    /\ IF dec.code.use_prefix_code
       THEN dec' = [dec EXCEPT !.code.huffman_data =
                                   Resize(@, dec.num_histograms, "empty"),
                               !.alphabet_sizes = [j \in 1..dec.num_histograms |-> 0],
                               !.decoded_sizes = [j \in 1..dec.num_histograms |-> 0],
                               !.c = 0, !.pc = "alphabet_sizes"]
       ELSE dec' = [dec EXCEPT !.code.alias_tables =
                                   [j \in 1..dec.num_histograms |-> "uninitialized"],
                               !.c = 0, !.pc = "histograms"]
    /\ UNCHANGED <<hybrid, histo, ucfg, reader>>

\* the status DecodeHistograms returns whatever DecodeANSCodes returned
DecodeHistogramsStatusIgnored(ans_codes_ok) == TRUE

\* if (!DecodeANSCodes(...)) return JXL_FAILURE(...); return true;
DecodeHistogramsStatus(ans_codes_ok) == ans_codes_ok

\* alphabet_sizes[c] = DecodeVarLenUint16(in) + 1, stored in a uint16_t
AlphabetSize(decoded) == (decoded + 1) % 2^16

\* prefix codes: one alphabet size
DecAlphabetSize ==
    /\ dec.pc = "alphabet_sizes"
    /\ dec.c < dec.num_histograms
    /\ \E in \in VarLen16Inputs :
         LET max_alphabet_size == 2^dec.code.log_alpha_size
             size == AlphabetSize(DecodeVarLenUint16(in))
             d == [DecSpan(dec, "alphabet_size", dec.c, VarLenConsumed(4, in)) EXCEPT
                      !.alphabet_sizes[dec.c + 1] = size,
                      !.decoded_sizes[dec.c + 1] = DecodeVarLenUint16(in) + 1]
         IN IF size > max_alphabet_size
            THEN dec' = DecDone(d, DecodeHistogramsStatus(FALSE), "alphabet_size")
            ELSE dec' = [d EXCEPT !.c = @ + 1]
    /\ UNCHANGED <<hybrid, histo, ucfg, reader>>

\* prefix codes: the sub-reader is set up over the rest of the stream
DecHuffmanStart ==
    /\ dec.pc = "alphabet_sizes"
    /\ dec.c = dec.num_histograms
    /\ \E truncated \in BOOLEAN :
         IF truncated
         THEN dec' = DecDone(dec, DecodeHistogramsStatus(FALSE), "truncated")
         ELSE dec' = [dec EXCEPT !.c = 0, !.pc = "huffman",
                                 !.sub = BrunsliBitReaderResume(dec.pos)]
    /\ UNCHANGED <<hybrid, histo, ucfg, reader>>

\* prefix codes: one Huffman table
DecHuffmanTable ==
    /\ dec.pc = "huffman"
    /\ dec.c < dec.num_histograms
    /\ IF dec.alphabet_sizes[dec.c + 1] > 1
       THEN \E table_ok \in BOOLEAN :
              LET d == DecSubSpan(dec, "huffman", dec.c,
                                  HuffmanBits(dec.alphabet_sizes[dec.c + 1]))
              IN IF ~table_ok
                 THEN dec' = DecDone(d, DecodeHistogramsStatus(FALSE), "huffman")
                 ELSE dec' = [d EXCEPT !.code.huffman_data[dec.c + 1] = "table",
                                       !.c = @ + 1]
       ELSE dec' = [dec EXCEPT !.code.huffman_data[dec.c + 1] = "zero_bit_table",
                               !.c = @ + 1]
    /\ UNCHANGED <<hybrid, histo, ucfg, reader>>

\* prefix codes: the sub-reader's health, the resynchronisation, the return
DecHuffmanEnd ==
    /\ dec.pc = "huffman"
    /\ dec.c = dec.num_histograms
    /\ \E healthy \in BOOLEAN :
         LET skip == HuffmanSkip(dec.sub.consumed_bytes, dec.sub.num_bits_,
                                 dec.pos % kBitsPerByte)
         IN IF healthy
            THEN dec' = DecDone([dec EXCEPT !.pos = @ + skip],
                                DecodeHistogramsStatus(TRUE), "none")
            ELSE dec' = DecDone(dec, DecodeHistogramsStatus(FALSE), "huffman_stream")
    /\ UNCHANGED <<hybrid, histo, ucfg, reader>>

\* ANS: one histogram and its alias table
DecHistogram ==
    /\ dec.pc = "histograms"
    /\ dec.c < dec.num_histograms
    /\ \E r \in HistogramResults :
         LET max_alphabet_size == 2^dec.code.log_alpha_size
             d == DecSpan(dec, "histogram", dec.c, HistogramBits)
         IN IF ~r.ok
            THEN /\ r.size = 1
                 /\ dec' = DecDone(d, DecodeHistogramsStatus(FALSE), "histogram")
            ELSE IF r.size > max_alphabet_size
            THEN dec' = DecDone(d, DecodeHistogramsStatus(FALSE), "alphabet_size")
            ELSE dec' = [d EXCEPT !.code.alias_tables[dec.c + 1] = "table", !.c = @ + 1]
    /\ UNCHANGED <<hybrid, histo, ucfg, reader>>

\* ANS: every histogram was read
DecANSEnd ==
    /\ dec.pc = "histograms"
    /\ dec.c = dec.num_histograms
    /\ dec' = DecDone(dec, DecodeHistogramsStatus(TRUE), "none")
    /\ UNCHANGED <<hybrid, histo, ucfg, reader>>

DecNext ==
    \/ DecLZ77Params
    \/ DecLengthConfig
    \/ DecContextMap
    \/ DecCodeType
    \/ DecUintConfig
    \/ DecANSCodesEnter
    \/ DecAlphabetSize
    \/ DecHuffmanStart
    \/ DecHuffmanTable
    \/ DecHuffmanEnd
    \/ DecHistogram
    \/ DecANSEnd

SpecDecodeHistograms == DecInit /\ [][DecNext]_vars

\* the fields read after the LZ77 prologue
AfterPrologue ==
    {"context_map", "use_prefix_code", "log_alpha_size", "uint_config",
     "alphabet_size", "huffman", "histogram"}

\* the histograms for which the code holds a table built by the call
BuiltTables(d) ==
    {j \in DOMAIN d.code.alias_tables : d.code.alias_tables[j] = "table"}
        \cup {j \in DOMAIN d.code.huffman_data : d.code.huffman_data[j] # "empty"}

\* the code holds configs or tables the call built, and not for every histogram
HoldsPartialSet(d) ==
    /\ d.i > 0 \/ BuiltTables(d) # {}
    /\ d.i < d.num_histograms \/ BuiltTables(d) # 1..d.num_histograms

\* C7 (as stated): in the prefix-code path every decoded alphabet size
\* DecodeVarLenUint16() + 1 above max_alphabet_size = 2^log_alpha_size makes
\* the call fail. The code stores the size in a uint16_t, so 65536 is
\* compared as 0 and accepted.
C7_OversizeAlphabetFails ==
    (dec.pc # "off" /\ dec.code.use_prefix_code) =>
        \A j \in DOMAIN dec.decoded_sizes :
            dec.decoded_sizes[j] > 2^dec.code.log_alpha_size =>
                (dec.pc = "done" /\ ~dec.ok)

\* C9: with lz77.enabled read as true and disallow_lz77 passed as true the
\* call goes no further than the length config, reads neither the context
\* map, use_prefix_code, a per-histogram config nor a histogram, and its
\* return is a failure.
C9_DisallowedFailsEarly ==
    (dec.pc # "off" /\ dec.code.lz77.enabled /\ dec.disallow_lz77) =>
        /\ dec.pc \in {"length_config", "done"}
        /\ dec.pc = "done" => ~dec.ok
        /\ \A k \in DOMAIN dec.reads : dec.reads[k] \notin AfterPrologue

C9_Witness ==
    /\ dec.pc = "done" /\ dec.code.lz77.enabled /\ dec.disallow_lz77
    /\ ~dec.ok /\ dec.failed = "none"
    /\ dec.reads = <<"lz77", "length_config">>

\* C10 (as stated): when a sub-field decode fails the call returns failure
\* and the caller's ANSCode holds no configs or tables built for only some
\* of the histograms.
C10_NoPartialSetOnFailure ==
    (dec.pc = "done" /\ dec.failed # "none") => (~dec.ok /\ ~HoldsPartialSet(dec))

\* C10 (amended): when a sub-field decode fails the call returns failure;
\* what the call stored in the caller's ANSCode before the failure stays.
C10_FailurePropagates ==
    (dec.pc = "done" /\ dec.failed # "none") => ~dec.ok

C10_Witness ==
    /\ dec.pc = "done" /\ dec.failed = "histogram" /\ ~dec.ok
    /\ dec.num_histograms = 2 /\ dec.c = 1
    /\ dec.code.alias_tables = <<"table", "uninitialized">>

(* ------------------------------------------------------------------ *)
(* ANSSymbolReader                                                     *)
(* ------------------------------------------------------------------ *)

\* the reader produces at most MaxDecoded values
MaxDecoded == 4

ANS_SIGNATURE == 19

kWindowSize == 2^20

kWindowMask == kWindowSize - 1

kNumSpecialDistances == 120

kSpecialDistances == <<
    <<0, 1>>, <<1, 0>>, <<1, 1>>, <<-1, 1>>, <<0, 2>>, <<2, 0>>, <<1, 2>>, <<-1, 2>>,
    <<2, 1>>, <<-2, 1>>, <<2, 2>>, <<-2, 2>>, <<0, 3>>, <<3, 0>>, <<1, 3>>, <<-1, 3>>,
    <<3, 1>>, <<-3, 1>>, <<2, 3>>, <<-2, 3>>, <<3, 2>>, <<-3, 2>>, <<0, 4>>, <<4, 0>>,
    <<1, 4>>, <<-1, 4>>, <<4, 1>>, <<-4, 1>>, <<3, 3>>, <<-3, 3>>, <<2, 4>>, <<-2, 4>>,
    <<4, 2>>, <<-4, 2>>, <<0, 5>>, <<3, 4>>, <<-3, 4>>, <<4, 3>>, <<-4, 3>>, <<5, 0>>,
    <<1, 5>>, <<-1, 5>>, <<5, 1>>, <<-5, 1>>, <<2, 5>>, <<-2, 5>>, <<5, 2>>, <<-5, 2>>,
    <<4, 4>>, <<-4, 4>>, <<3, 5>>, <<-3, 5>>, <<5, 3>>, <<-5, 3>>, <<0, 6>>, <<6, 0>>,
    <<1, 6>>, <<-1, 6>>, <<6, 1>>, <<-6, 1>>, <<2, 6>>, <<-2, 6>>, <<6, 2>>, <<-6, 2>>,
    <<4, 5>>, <<-4, 5>>, <<5, 4>>, <<-5, 4>>, <<3, 6>>, <<-3, 6>>, <<6, 3>>, <<-6, 3>>,
    <<0, 7>>, <<7, 0>>, <<1, 7>>, <<-1, 7>>, <<5, 5>>, <<-5, 5>>, <<7, 1>>, <<-7, 1>>,
    <<4, 6>>, <<-4, 6>>, <<6, 4>>, <<-6, 4>>, <<2, 7>>, <<-2, 7>>, <<7, 2>>, <<-7, 2>>,
    <<3, 7>>, <<-3, 7>>, <<7, 3>>, <<-7, 3>>, <<5, 6>>, <<-5, 6>>, <<6, 5>>, <<-6, 5>>,
    <<8, 0>>, <<4, 7>>, <<-4, 7>>, <<7, 4>>, <<-7, 4>>, <<8, 1>>, <<8, 2>>, <<6, 6>>,
    <<-6, 6>>, <<8, 3>>, <<5, 7>>, <<-5, 7>>, <<7, 5>>, <<-7, 5>>, <<8, 4>>, <<6, 7>>,
    <<-6, 7>>, <<7, 6>>, <<-7, 6>>, <<8, 5>>, <<7, 7>>, <<-7, 7>>, <<8, 6>>, <<8, 7>>>>

\* a word plus a number below 2^31
RECURSIVE WordAdd(_, _)
WordAdd(S, k) ==
    IF k = 0 THEN S
    ELSE LET s == ToNat(LowBits(S, 16)) + (k % 65536)
         IN FromNat(s % 65536)
                \cup Shl(WordAdd(Shr(S, 16), (k \div 65536) + (s \div 65536)), 16)

\* a nonzero word minus one
WordDec(S) ==
    LET i == CHOOSE x \in S : \A y \in S : x <= y
    IN (S \ {i}) \cup (0..(i - 1))

\* a word minus a number below 2^16 that is not above it
WordSub(S, k) ==
    LET low == ToNat(LowBits(S, 16))
    IN IF low >= k
       THEN FromNat(low - k) \cup Shl(Shr(S, 16), 16)
       ELSE FromNat(low + 65536 - k) \cup Shl(WordDec(Shr(S, 16)), 16)

\* an unsigned word above a number below 2^31 - 1
WordGreater(S, n) == ~WordLess(S, n + 1)

\* AliasTable::Lookup over a table given by its symbols in slot order, each
\* with its frequency: the symbol whose slots hold res, and the rank of res
\* among them
RECURSIVE LookupFrom(_, _, _)
LookupFrom(table, k, res) ==
    IF res < table[k].freq
    THEN [value |-> table[k].value, freq |-> table[k].freq, offset |-> res]
    ELSE LookupFrom(table, k + 1, res - table[k].freq)

Lookup(table, res) == LookupFrom(table, 1, res)

\* a step that never refills
RenormalizeNever(product, br) == [state_ |-> product, br |-> br]

\* normalize = state_ < (1u << 16u); state_ = normalize ? new_state : state_;
\* br->Consume(normalize ? 16 : 0)
Renormalize(product, br) ==
    LET new_state == U32(Shl(product, 16)) \cup PeekBits(br, 16)
        normalize == Shr(product, 16) = {}
    IN [state_ |-> IF normalize THEN new_state ELSE product,
        br     |-> Consume(br, IF normalize THEN 16 ELSE 0)]

\* the step with state_ shifted by 8 instead of ANS_LOG_TAB_SIZE
ReadSymbolANSWithoutRefillByteShift(state, table, br) ==
    LET res    == ToNat(LowBits(state, ANS_LOG_TAB_SIZE))
        symbol == Lookup(table, res)
        x      == ToNat(Shr(state, 8))
        p0     == (symbol.freq * (x % 256)) + symbol.offset
        high   == (symbol.freq * (x \div 256)) + (p0 \div 256)
        product == FromNat(((high % 256) * 256) + (p0 % 256))
                      \cup Shl(FromNat((high \div 256) % 65536), 16)
        r      == Renormalize(product, br)
    IN [value |-> symbol.value, state_ |-> r.state_, br |-> r.br,
        steps |-> <<[before |-> state, after |-> r.state_,
                     overflow |-> high \div 256 >= 65536,
                     consumed |-> r.br.pos - br.pos,
                     freq |-> symbol.freq, offset |-> symbol.offset,
                     product |-> product]>>]

\* ReadSymbolANSWithoutRefill: the symbol, the new state_ and bit reader, and
\* the step as <<state_ before, after, whether the product passed 32 bits,
\* the bits consumed, the entry looked up, the product cut to 32 bits>>.
\* freq * (state_ >> ANS_LOG_TAB_SIZE) + offset is formed from the two bytes
\* halves of state_ >> ANS_LOG_TAB_SIZE and cut to 32 bits.
ReadSymbolANSWithoutRefill(state, table, br) ==
    LET res    == ToNat(LowBits(state, ANS_LOG_TAB_SIZE))
        symbol == Lookup(table, res)
        x      == ToNat(Shr(state, ANS_LOG_TAB_SIZE))
        p0     == (symbol.freq * (x % 256)) + symbol.offset
        high   == (symbol.freq * (x \div 256)) + (p0 \div 256)
        product == FromNat(((high % 256) * 256) + (p0 % 256))
                      \cup Shl(FromNat((high \div 256) % 65536), 16)
        r      == Renormalize(product, br)
    IN [value |-> symbol.value, state_ |-> r.state_, br |-> r.br,
        steps |-> <<[before |-> state, after |-> r.state_,
                     overflow |-> high \div 256 >= 65536,
                     consumed |-> r.br.pos - br.pos,
                     freq |-> symbol.freq, offset |-> symbol.offset,
                     product |-> product]>>]

\* ReadSymbolHuffWithoutRefill over a table given by its symbols, each with
\* the length of its code: the table walk ends at one of them, pick says which
ReadSymbolHuffWithoutRefill(state, table, br, pick) ==
    LET k == ((pick - 1) % Len(table)) + 1
    IN [value |-> table[k].value, state_ |-> state,
        br |-> Consume(br, ANS_LOG_TAB_SIZE - (CeilLog2Nonzero(table[k].freq))),
        steps |-> << >>]

ReadSymbolWithoutRefill(rd, histo_idx, state, br, pick) ==
    IF rd.use_prefix_code_
    THEN ReadSymbolHuffWithoutRefill(state, rd.tables[histo_idx + 1], br, pick)
    ELSE ReadSymbolANSWithoutRefill(state, rd.tables[histo_idx + 1], br)

\* special_distances_[i] as the constructor fills it
SpecialDistance(i, distance_multiplier) ==
    LET dist == kSpecialDistances[i + 1][1]
                  + (distance_multiplier * kSpecialDistances[i + 1][2])
    IN IF dist < 1 THEN 1 ELSE dist

\* the histograms of the sampled codes, as symbols with frequencies: literals
\* and a length token; one symbol only; two distance codes
SampleTables ==
    << <<[value |-> 1, freq |-> 2048], [value |-> 2, freq |-> 1024],
         [value |-> 9, freq |-> 1024]>>,
       <<[value |-> 7, freq |-> ANS_TAB_SIZE]>>,
       <<[value |-> 0, freq |-> 2048], [value |-> 1, freq |-> 2048]>> >>

\* a literal and two length tokens, the length of the second taking 29 bits of
\* the stream
LongLengthTables ==
    [SampleTables EXCEPT ![1] =
        <<[value |-> 1, freq |-> 2048], [value |-> 9, freq |-> 1024],
          [value |-> 129, freq |-> 1024]>>]

SampleUintConfigs ==
    <<HybridUintConfig(1, 0, 0), HybridUintConfig(4, 2, 0), HybridUintConfig(4, 2, 0)>>

\* the configs under which the token 129 is a literal of 34 bits
LongUintConfigs == [SampleUintConfigs EXCEPT ![1] = HybridUintConfig(2, 0, 2)]

\* the ANSCodes readers are built over: with LZ77 (min_symbol 8, the distance
\* context the last histogram; the prefix code has the second length token)
\* and without (the prefix code has the 34-bit literal)
SampleCodes ==
    {[use_prefix_code |-> p, log_alpha_size |-> IF p THEN kMaxHuffmanBits ELSE 5,
      tables |-> IF p THEN LongLengthTables ELSE SampleTables,
      uint_config |-> IF p /\ ~e THEN LongUintConfigs ELSE SampleUintConfigs,
      lz77 |-> [enabled |-> e, min_symbol |-> IF e THEN 8 ELSE 224, min_length |-> 3,
                length_uint_config |-> HybridUintConfig(2, 0, 2),
                nonserialized_distance_context |-> 2]] :
        p \in BOOLEAN, e \in BOOLEAN}

\* the first 32 bits of a stream: 0, 2^16 - 1, 2^16, ANS_SIGNATURE << 16,
\* 2^32 - 1
SampleStates == {{}, 0..15, {16}, Shl(FromNat(ANS_SIGNATURE), 16), 0..31}

\* the bits to come in a stream: zeros, ones, and zeros and ones in turn
SampleStreams ==
    {{}, 0..63, {i \in 0..63 : i % 2 = 1}}

\* what a cell of lz77_window_ that was never written may hold
SampleGarbage == {{}, 0..31}

\* the constructor without the return for a code whose LZ77 is off
ConstructWithoutReturn(code, first32, distance_multiplier) ==
    [pc |-> "idle",
     tables |-> code.tables,
     use_prefix_code_ |-> code.use_prefix_code,
     configs |-> code.uint_config,
     state_ |-> IF code.use_prefix_code
                THEN Shl(FromNat(ANS_SIGNATURE), 16) ELSE first32,
     pos |-> IF code.use_prefix_code THEN 0 ELSE 32,
     window |-> << >>,
     num_decoded_ |-> 0,
     num_to_copy_ |-> {},
     copy_pos_ |-> 0,
     lz77_ctx_ |-> code.lz77.nonserialized_distance_context,
     lz77_min_length_ |-> code.lz77.min_length,
     lz77_threshold_ |-> code.lz77.min_symbol,
     lz77_length_uint_ |-> code.lz77.length_uint_config,
     distance_multiplier |-> distance_multiplier,
     num_special_distances_ |-> IF distance_multiplier = 0
                                THEN 0 ELSE kNumSpecialDistances,
     ctx |-> 0,
     out |-> << >>,
     steps |-> << >>,
     run |-> [distance |-> 0, length |-> {}, at |-> 0],
     depth |-> 0,
     enabled |-> code.lz77.enabled,
     last |-> "construct"]

\* ANSSymbolReader(code, br, distance_multiplier)
Construct(code, first32, distance_multiplier) ==
    [pc |-> "idle",
     tables |-> code.tables,
     use_prefix_code_ |-> code.use_prefix_code,
     configs |-> code.uint_config,
     state_ |-> IF code.use_prefix_code
                THEN Shl(FromNat(ANS_SIGNATURE), 16) ELSE first32,
     pos |-> IF code.use_prefix_code THEN 0 ELSE 32,
     window |-> << >>,
     num_decoded_ |-> 0,
     num_to_copy_ |-> {},
     copy_pos_ |-> 0,
     lz77_ctx_ |-> IF code.lz77.enabled
                   THEN code.lz77.nonserialized_distance_context ELSE 0,
     lz77_min_length_ |-> IF code.lz77.enabled THEN code.lz77.min_length ELSE 0,
     lz77_threshold_ |-> IF code.lz77.enabled THEN code.lz77.min_symbol ELSE 2^20,
     lz77_length_uint_ |-> code.lz77.length_uint_config,
     distance_multiplier |-> distance_multiplier,
     num_special_distances_ |-> IF distance_multiplier = 0
                                THEN 0 ELSE kNumSpecialDistances,
     ctx |-> 0,
     out |-> << >>,
     steps |-> << >>,
     run |-> [distance |-> 0, length |-> {}, at |-> 0],
     depth |-> 0,
     enabled |-> code.lz77.enabled,
     last |-> "construct"]

ReaderInit ==
    /\ \E code \in SampleCodes, first32 \in SampleStates, distance_multiplier \in {0, 1} :
         /\ code.use_prefix_code => first32 = {}
         /\ ~code.lz77.enabled => distance_multiplier = 0
         /\ reader = Construct(code, first32, distance_multiplier)
    /\ hybrid = HybridOff /\ histo = HistoOff /\ ucfg = UcfgOff /\ dec = DecOff

\* a window whose cells hold the whole size_t value
WindowWriteUncut(window, cell, value) ==
    IF cell < Len(window)
    THEN [window EXCEPT ![cell + 1] = value]
    ELSE Append(window, value)

\* lz77_window_[cell] = value, value cut to uint32_t; the cells written so
\* far are a prefix of the window
WindowWrite(window, cell, value) ==
    IF cell < Len(window)
    THEN [window EXCEPT ![cell + 1] = U32(value)]
    ELSE Append(window, U32(value))

\* lz77_window_[cell]; a cell never written holds garbage
WindowRead(window, cell, garbage) ==
    IF cell < Len(window) THEN window[cell + 1] ELSE garbage

\* the pending copy with the write to lz77_window_ left out
ReadCopyWithoutWrite(rd, garbage) ==
    LET ret == WindowRead(rd.window, rd.copy_pos_ % (kWindowMask + 1), garbage)
    IN [rd EXCEPT !.pc = "idle",
                  !.copy_pos_ = @ + 1,
                  !.num_to_copy_ = WordDec(@),
                  !.num_decoded_ = @ + 1,
                  !.out = Append(@, ret),
                  !.steps = << >>,
                  !.depth = 0,
                  !.last = "copy"]

\* ReadHybridUintClustered: the pending copy
ReadCopy(rd, garbage) ==
    LET ret == WindowRead(rd.window, rd.copy_pos_ % (kWindowMask + 1), garbage)
    IN [rd EXCEPT !.pc = "idle",
                  !.copy_pos_ = @ + 1,
                  !.num_to_copy_ = WordDec(@),
                  !.window = WindowWrite(@, rd.num_decoded_ % (kWindowMask + 1), ret),
                  !.num_decoded_ = @ + 1,
                  !.out = Append(@, ret),
                  !.steps = << >>,
                  !.depth = 0,
                  !.last = "copy"]

\* ReadHybridUintClustered: a length token and the distance that follows it,
\* up to the recursive call
ReadLengthDistance(rd, ctx, s1, pick) ==
    LET length == ReadHybridUintConfig(rd.lz77_length_uint_,
                                       s1.value - rd.lz77_threshold_, s1.br)
        num_to_copy == U32(WordAdd(length.ret, rd.lz77_min_length_))
        s2 == ReadSymbolWithoutRefill(rd, rd.lz77_ctx_, s1.state_, length.br, pick)
        d  == ReadHybridUintConfig(rd.configs[rd.lz77_ctx_ + 1], s2.value, s2.br)
        mapped == IF WordLess(d.ret, rd.num_special_distances_)
                  THEN FromNat(SpecialDistance(ToNat(d.ret), rd.distance_multiplier))
                  ELSE WordSub(WordAdd(d.ret, 1), rd.num_special_distances_)
        within == IF WordGreater(mapped, rd.num_decoded_)
                  THEN rd.num_decoded_ ELSE ToNat(mapped)
        distance == IF within > kWindowSize THEN kWindowSize ELSE within
    IN [rd EXCEPT !.pc = "recurse",
                  !.ctx = ctx,
                  !.state_ = s2.state_,
                  !.pos = d.br.pos,
                  !.num_to_copy_ = num_to_copy,
                  !.copy_pos_ = rd.num_decoded_ - distance,
                  !.steps = s1.steps \o s2.steps,
                  !.run = [distance |-> distance, length |-> num_to_copy,
                           at |-> rd.num_decoded_],
                  !.depth = @ + 1,
                  !.last = "length"]

\* ReadHybridUintClustered: a literal
ReadLiteral(rd, ctx, s1) ==
    LET v == ReadHybridUintConfig(rd.configs[ctx + 1], s1.value, s1.br)
    IN [rd EXCEPT !.pc = "idle",
                  !.state_ = s1.state_,
                  !.pos = v.br.pos,
                  !.window = WindowWrite(@, rd.num_decoded_ % (kWindowMask + 1), v.ret),
                  !.num_decoded_ = @ + 1,
                  !.out = Append(@, v.ret),
                  !.steps = s1.steps,
                  !.depth = 0,
                  !.last = "literal"]

\* the length tokens followed within one outer call of ReadHybridUintClustered
MaxDepth == 2

\* where a walk of the Huffman table of histo_idx may end: one of its symbols
Picks(rd, histo_idx) ==
    IF rd.use_prefix_code_ THEN 1..Len(rd.tables[histo_idx + 1]) ELSE {1}

\* the body of ReadHybridUintClustered(ctx, br) for a reader rd, the bits to
\* come, what an unwritten cell holds and where the table walks end
ReadClustered(rd, ctx, stream, garbage, pick1, pick2) ==
    IF rd.num_to_copy_ # {}
    THEN ReadCopy(rd, garbage)
    ELSE LET br == [buf |-> stream, pos |-> rd.pos]
             s1 == ReadSymbolWithoutRefill(rd, ctx, rd.state_, br, pick1)
         IN IF s1.value >= rd.lz77_threshold_
            THEN ReadLengthDistance(rd, ctx, s1, pick2)
            ELSE ReadLiteral(rd, ctx, s1)

\* ReadHybridUintClustered(ctx, br), from the caller or from itself after a
\* length token
ReadHybridUintClustered ==
    /\ reader.pc \in {"idle", "recurse"}
    /\ reader.num_decoded_ < MaxDecoded
    /\ reader.num_to_copy_ = {} => reader.depth < MaxDepth
    /\ IF reader.num_to_copy_ # {}
       THEN \E garbage \in SampleGarbage :
              /\ reader.copy_pos_ < Len(reader.window) => garbage = {}
              /\ reader' = ReadCopy(reader, garbage)
       ELSE \E ctx \in 0..(Len(reader.tables) - 1), stream \in SampleStreams :
            \E pick1 \in Picks(reader, ctx) :
              /\ reader.pc = "recurse" => ctx = reader.ctx
              /\ LET br == [buf |-> stream, pos |-> reader.pos]
                     s1 == ReadSymbolWithoutRefill(reader, ctx, reader.state_, br, pick1)
                 IN IF s1.value >= reader.lz77_threshold_
                    THEN \E pick2 \in Picks(reader, reader.lz77_ctx_) :
                           reader' = ReadLengthDistance(reader, ctx, s1, pick2)
                    ELSE reader' = ReadLiteral(reader, ctx, s1)
    /\ UNCHANGED <<hybrid, histo, ucfg, dec>>

RECURSIVE WindowFill(_, _, _, _)
\* for (i < count) lz77_window_[(num_decoded_++) & kWindowMask] = value
WindowFill(window, num_decoded, value, count) ==
    IF count = 0 THEN window
    ELSE WindowFill(WindowWrite(window, num_decoded % (kWindowMask + 1), value),
                    num_decoded + 1, value, count - 1)

\* IsSingleValue without the return for prefix codes
SingleValueAnyMode(rd, ctx, count) ==
    LET res == ToNat(LowBits(rd.state_, ANS_LOG_TAB_SIZE))
        symbol == Lookup(rd.tables[ctx + 1], res)
        single == /\ symbol.freq = ANS_TAB_SIZE
                  /\ rd.configs[ctx + 1].split_token > symbol.value
                  /\ symbol.value < rd.lz77_threshold_
    IN IF single
       THEN [rd EXCEPT !.window = WindowFill(@, rd.num_decoded_,
                                             FromNat(symbol.value), count),
                       !.num_decoded_ = @ + count,
                       !.out = @ \o [j \in 1..count |-> FromNat(symbol.value)],
                       !.steps = << >>,
                       !.last = "single"]
       ELSE [rd EXCEPT !.steps = << >>, !.last = "not_single"]

\* the body of IsSingleValue(ctx, &value, count) for a reader rd
SingleValue(rd, ctx, count) ==
    LET res == ToNat(LowBits(rd.state_, ANS_LOG_TAB_SIZE))
        symbol == Lookup(rd.tables[ctx + 1], res)
        single == /\ ~rd.use_prefix_code_
                  /\ symbol.freq = ANS_TAB_SIZE
                  /\ rd.configs[ctx + 1].split_token > symbol.value
                  /\ symbol.value < rd.lz77_threshold_
    IN IF single
       THEN [rd EXCEPT !.window = WindowFill(@, rd.num_decoded_,
                                             FromNat(symbol.value), count),
                       !.num_decoded_ = @ + count,
                       !.out = @ \o [j \in 1..count |-> FromNat(symbol.value)],
                       !.steps = << >>,
                       !.last = "single"]
       ELSE [rd EXCEPT !.steps = << >>, !.last = "not_single"]

\* IsSingleValue(ctx, &value, count)
IsSingleValue ==
    /\ reader.pc = "idle"
    /\ \E ctx \in 0..(Len(reader.tables) - 1), count \in 1..2 :
         /\ reader.num_decoded_ + count <= MaxDecoded
         /\ SingleValue(reader, ctx, count).last = "not_single" => count = 1
         /\ reader' = SingleValue(reader, ctx, count)
    /\ UNCHANGED <<hybrid, histo, ucfg, dec>>

ReaderNext == ReadHybridUintClustered \/ IsSingleValue

SpecReader == ReaderInit /\ [][ReaderNext]_vars

\* C3 (as stated): in ANS mode state_ is at least 2^16 after every symbol
\* decode step of every reader, whatever 32 bits it was constructed from.
C3_StateNeverBelow ==
    (reader.pc # "off" /\ ~reader.use_prefix_code_) =>
        \A k \in DOMAIN reader.steps : Shr(reader.steps[k].after, 16) # {}

\* C3 (amended): in ANS mode a symbol decode step that starts with state_ at
\* least 2^16 ends with state_ in [2^16, 2^32), and its product does not
\* pass 32 bits.
C3_StateStaysAbove ==
    (reader.pc # "off" /\ ~reader.use_prefix_code_) =>
        \A k \in DOMAIN reader.steps :
            Shr(reader.steps[k].before, 16) # {} =>
                /\ Shr(reader.steps[k].after, 16) # {}
                /\ reader.steps[k].after \subseteq 0..31
                /\ ~reader.steps[k].overflow

\* a step from a state_ at least 2^16 that refilled
C3_Witness ==
    /\ reader.pc # "off" /\ ~reader.use_prefix_code_
    /\ \E k \in DOMAIN reader.steps :
         /\ Shr(reader.steps[k].before, 16) # {}
         /\ reader.steps[k].consumed = 16
         /\ Shr(reader.steps[k].after, 16) # {}

\* C4 (as stated): a value returned from a pending copy of distance D equals
\* the value produced D positions earlier in the output, out[k] = out[k - D].
C4_CopyRepeatsEarlierValue ==
    (reader.pc # "off" /\ reader.last = "copy") =>
        LET k == Len(reader.out)
            D == reader.run.distance
        IN /\ D >= 1
           /\ k - D >= 1
           /\ reader.out[k] = reader.out[k - D]

\* C5 (as stated): when a length/distance pair was decoded the distance is
\* in [1, min(num_decoded_, 2^20)], copy_pos_ is num_decoded_ - distance and
\* is a position already decoded.
C5_DistanceClamped ==
    (reader.pc # "off" /\ reader.last = "length") =>
        /\ reader.run.distance >= 1
        /\ reader.run.distance <= Min(reader.num_decoded_, kWindowSize)
        /\ reader.copy_pos_ = reader.num_decoded_ - reader.run.distance
        /\ reader.copy_pos_ < reader.num_decoded_

(* ------------------------------------------------------------------ *)
(* DecodeHistograms called again on the ANSCode and the context map of  *)
(* an earlier call                                                     *)
(* ------------------------------------------------------------------ *)

\* the calls made on one ANSCode
MaxCalls == 2

\* after a call that succeeded the caller passes the same ANSCode, context
\* map and disallow_lz77 to another call (a caller that was returned a failure
\* stops decoding)
DecCallAgain ==
    /\ dec.pc = "done"
    /\ dec.ok
    /\ dec.calls < MaxCalls
    /\ \E num_contexts \in NumContextsSample :
         dec' = [dec EXCEPT !.pc = "lz77",
                            !.num_contexts = num_contexts, !.num_histograms = 1,
                            !.i = 0, !.c = 0, !.alphabet_sizes = << >>,
                            !.decoded_sizes = << >>, !.reads = << >>,
                            !.spans = << >>, !.pos = 0, !.sub = BrunsliBitReaderInit,
                            !.ok = FALSE, !.failed = "none", !.calls = @ + 1]
    /\ UNCHANGED <<hybrid, histo, ucfg, reader>>

DecReuseNext == DecNext \/ DecCallAgain

SpecDecodeHistogramsReuse == DecInit /\ [][DecReuseNext]_vars

\* C11 (as stated): after any sequence of successful calls on one ANSCode,
\* the alias-table array holds data exactly when use_prefix_code is false and
\* the Huffman tables hold data exactly when it is true.
C11_OneVariantPopulated ==
    (dec.pc = "done" /\ dec.ok) =>
        /\ (dec.code.alias_tables # << >>) = ~dec.code.use_prefix_code
        /\ (dec.code.huffman_data # << >>) = dec.code.use_prefix_code

(* ------------------------------------------------------------------ *)
(* Two ANSSymbolReaders over one ANSCode, each with its own BitReader.  *)
(* reader.rd holds the two readers, reader.code the ANSCode they point  *)
(* to, reader.solo each reader as it runs alone over the ANSCode as it  *)
(* was at construction.                                                *)
(* ------------------------------------------------------------------ *)

\* the operations the two readers perform together
MaxPairOps == 2

\* an ANSCode whose tables are rewritten by a read
ANSCodeAfterReadAdaptive(code) ==
    [code EXCEPT !.tables = [j \in DOMAIN @ |-> @[1]]]

\* the ANSCode after an operation of a reader: the reader holds it through
\* pointers to const and writes nothing
ANSCodeAfterRead(code) == code

\* alias_tables_, huffman_data_ and configs point into the ANSCode
Attach(rd, code) == [rd EXCEPT !.tables = code.tables, !.configs = code.uint_config]

\* CheckANSFinalState()
CheckANSFinalState(rd) ==
    [rd EXCEPT !.steps = << >>,
               !.last = IF rd.state_ = Shl(FromNat(ANS_SIGNATURE), 16)
                        THEN "final_true" ELSE "final_false"]

\* the first 32 bits of the two streams: ANS_SIGNATURE << 16 and 2^16 - 1
PairStates == {Shl(FromNat(ANS_SIGNATURE), 16), 0..15}

PairInit ==
    /\ \E code \in SampleCodes, a \in PairStates, b \in PairStates :
         /\ code.use_prefix_code => (a = 0..15 /\ b = 0..15)
         /\ LET rd == <<Construct(code, a, 0), Construct(code, b, 0)>>
            IN reader = [pc |-> "pair", code |-> code, code0 |-> code,
                         rd |-> rd, solo |-> rd, ops |-> 0]
    /\ hybrid = HybridOff /\ histo = HistoOff /\ ucfg = UcfgOff /\ dec = DecOff

\* reader w as it reads the shared ANSCode
Shared(w) == Attach(reader.rd[w], reader.code)

\* reader w running alone on its own copy of the ANSCode
Solo(w) == Attach(reader.solo[w], reader.code0)

\* one operation was applied to reader w (giving shared) and to the same
\* reader running alone (giving solo)
PairStep(w, shared, solo) ==
    reader' = [reader EXCEPT !.rd[w] = shared,
                             !.solo[w] = solo,
                             !.code = ANSCodeAfterRead(@),
                             !.ops = @ + 1]

PairRead ==
    /\ reader.ops < MaxPairOps
    /\ \E w \in 1..2 :
         LET rd == reader.rd[w]
             copying == rd.num_to_copy_ # {}
         IN \E garbage \in IF copying THEN SampleGarbage ELSE {{}},
               ctx \in IF copying THEN {rd.ctx} ELSE 0..(Len(rd.tables) - 1),
               stream \in IF copying THEN {{}} ELSE SampleStreams :
            \E pick1 \in IF copying THEN {1} ELSE Picks(rd, ctx),
               pick2 \in IF copying THEN {1} ELSE Picks(rd, rd.lz77_ctx_) :
              /\ (copying /\ rd.copy_pos_ < Len(rd.window)) => garbage = {}
              /\ (~copying /\ rd.pc = "recurse") => ctx = rd.ctx
              /\ LET both == [k \in {"shared", "solo"} |->
                                ReadClustered(IF k = "shared" THEN Shared(w) ELSE Solo(w),
                                              ctx, stream, garbage, pick1, pick2)]
                 IN PairStep(w, both["shared"], both["solo"])
    /\ UNCHANGED <<hybrid, histo, ucfg, dec>>

PairIsSingleValue ==
    /\ reader.ops < MaxPairOps
    /\ \E w \in 1..2 :
         /\ reader.rd[w].pc = "idle"
         /\ \E ctx \in 0..(Len(reader.rd[w].tables) - 1) :
              LET Op(r) == SingleValue(r, ctx, 1)
              IN PairStep(w, Op(Shared(w)), Op(Solo(w)))
    /\ UNCHANGED <<hybrid, histo, ucfg, dec>>

PairCheckFinal ==
    /\ reader.ops < MaxPairOps
    /\ \E w \in 1..2 :
         /\ reader.rd[w].pc = "idle"
         /\ PairStep(w, CheckANSFinalState(Shared(w)), CheckANSFinalState(Solo(w)))
    /\ UNCHANGED <<hybrid, histo, ucfg, dec>>

PairNext == PairRead \/ PairIsSingleValue \/ PairCheckFinal

SpecReaderPair == PairInit /\ [][PairNext]_vars

DecodeVarLenUintBitsNoLead(expbits, br) ==
    IF 0 \in PeekBits(br, 1)
    THEN LET br1 == Consume(br, 1)
             nbits == ToNat(PeekBits(br1, expbits))
             br2 == Consume(br1, expbits)
         IN IF nbits = 0
            THEN [value |-> 1, br |-> br2]
            ELSE [value |-> ToNat(PeekBits(br2, nbits)),
                  br |-> Consume(br2, nbits)]
    ELSE [value |-> 0, br |-> Consume(br, 1)]

\* the presence bit, the exponent of expbits bits, the mantissa of nbits bits
DecodeVarLenUintBits(expbits, br) ==
    IF 0 \in PeekBits(br, 1)
    THEN LET br1 == Consume(br, 1)
             nbits == ToNat(PeekBits(br1, expbits))
             br2 == Consume(br1, expbits)
         IN IF nbits = 0
            THEN [value |-> 1, br |-> br2]
            ELSE [value |-> ToNat(PeekBits(br2, nbits)) + 2^nbits,
                  br |-> Consume(br2, nbits)]
    ELSE [value |-> 0, br |-> Consume(br, 1)]

\* every stream of 12 bits: the 11 bits DecodeVarLenUint8 may read and one more
VarLen8Streams == SUBSET (0..11)

\* streams for DecodeVarLenUint16: either presence bit, every exponent, the
\* mantissa all zeros, all ones or alternating, and the bit after it
VarLen16Streams ==
    {{}, 1..21} \cup
    UNION {UNION {{{0} \cup Shl(FromNat(n), 1) \cup Shl(m, 5) \cup g
                      : g \in {{}, {5 + n}}}
                  : m \in {{}, 0..(n - 1), {k \in 0..(n - 1) : k % 2 = 0}}}
           : n \in 0..15}

VarLenInit ==
    /\ \E expbits \in {3, 4} :
         \E in \in (IF expbits = 3 THEN VarLen8Streams ELSE VarLen16Streams) :
           ucfg = [pc |-> "varlen", expbits |-> expbits,
                   br |-> [buf |-> in, pos |-> 0]]
    /\ hybrid = HybridOff /\ histo = HistoOff /\ dec = DecOff /\ reader = ReaderOff

VarLenDecode8 ==
    /\ ucfg.pc = "varlen" /\ ucfg.expbits = 3
    /\ LET r == DecodeVarLenUintBits(3, ucfg.br)
       IN ucfg' = [pc |-> "varlen_done", expbits |-> 3, in |-> ucfg.br.buf,
                   value |-> r.value, br |-> r.br]
    /\ UNCHANGED <<hybrid, histo, dec, reader>>

VarLenDecode16 ==
    /\ ucfg.pc = "varlen" /\ ucfg.expbits = 4
    /\ LET r == DecodeVarLenUintBits(4, ucfg.br)
       IN ucfg' = [pc |-> "varlen_done", expbits |-> 4, in |-> ucfg.br.buf,
                   value |-> r.value, br |-> r.br]
    /\ UNCHANGED <<hybrid, histo, dec, reader>>

VarLenNext == VarLenDecode8 \/ VarLenDecode16

SpecVarLen == VarLenInit /\ [][VarLenNext]_vars

\* C13: DecodeVarLenUint8 returns 0 when the presence bit is 0, otherwise
\* reads a 3-bit n and returns 1 if n = 0 and 2^n + ReadBits(n) otherwise; the
\* result is in [0,255] and 1 to 11 bits are consumed.  DecodeVarLenUint16
\* does the same with a 4-bit n: result in [0,65535], 1 to 21 bits consumed.
\* Every input yields a value (there is no error path), and the bits after
\* the consumed ones are left in the stream.
C13_VarLenUint ==
    ucfg.pc = "varlen_done" =>
        LET e == ucfg.expbits
            N == ToNat(ucfg.in)
            presence == N % 2
            n == (N \div 2) % (2^e)
            x == (N \div (2^(1 + e))) % (2^n)
            used == IF presence = 0 THEN 1 ELSE 1 + e + n
        IN /\ ucfg.value = (IF presence = 0 THEN 0
                            ELSE IF n = 0 THEN 1 ELSE 2^n + x)
           /\ ucfg.br.pos = used
           /\ ucfg.br.buf = Shr(ucfg.in, used)
           /\ ucfg.value \in 0..(2^(2^e) - 1)
           /\ ucfg.br.pos \in 1..(IF e = 3 THEN 11 ELSE 21)

C13_Witness ==
    /\ ucfg.pc = "varlen_done"
    /\ ucfg.expbits = 4
    /\ ucfg.value = 65535
    /\ ucfg.br.pos = 1 + 4 + 15
    /\ ucfg.br.buf # {}

(* ------------------------------------------------------------------ *)
(* ReadHistogram: the simple encoding                                   *)
(* ------------------------------------------------------------------ *)

\* C14: simple histogram encoding.  One symbol s: length s + 1, counts[s] =
\* 2^precision_bits, every other entry 0 (symbol 5 at precision 12 gives
\* [0,0,0,0,0,4096]).  Two distinct symbols s0, s1 and the value c: counts[s0]
\* = c, counts[s1] = 2^precision_bits - c, every other entry 0 ({3,7} with c =
\* 1000 gives counts[3] = 1000, counts[7] = 3096).  Two equal symbols: error.
C14_SimpleHistogram ==
    (histo.pc = "done" /\ histo.encoding = "simple") =>
        LET P == 2^histo.precision_bits
            s == histo.symbols
            others == (0..(histo.length - 1)) \ {s[k] : k \in DOMAIN s}
        IN /\ \A j \in others : histo.counts[j] = 0
           /\ Len(s) = 1 =>
                 /\ histo.ok
                 /\ histo.length = s[1] + 1
                 /\ histo.counts[s[1]] = P
                 /\ (s[1] = 5 /\ histo.precision_bits = 12) =>
                       histo.counts = [j \in 0..5 |-> IF j = 5 THEN 4096 ELSE 0]
           /\ (Len(s) = 2 /\ s[1] # s[2]) =>
                 /\ histo.ok
                 /\ histo.counts[s[1]] = histo.first
                 /\ histo.counts[s[2]] = P - histo.first
                 /\ (s = <<3, 7>> /\ histo.first = 1000 /\ histo.precision_bits = 12) =>
                       (histo.counts[3] = 1000 /\ histo.counts[7] = 3096)
           /\ (Len(s) = 2 /\ s[1] = s[2]) => ~histo.ok

\* the symbols {3, 7} with first count 1000 were decoded
C14_Witness ==
    /\ histo.pc = "done" /\ histo.encoding = "simple" /\ histo.ok
    /\ histo.symbols = <<3, 7>>
    /\ histo.first = 1000
    /\ histo.length = 8

(* ------------------------------------------------------------------ *)
(* PackSigned / UnpackSigned                                           *)
(* ------------------------------------------------------------------ *)

\* ~S in a word of w bits
Complement(S, w) == (0..(w - 1)) \ S

Xor(A, B) == (A \ B) \cup (B \ A)

\* S - 1 in unsigned arithmetic of w bits
DecWrap(S, w) == IF S = {} THEN 0..(w - 1) ELSE WordDec(S)

\* S + 1, not truncated
WordInc(S) ==
    LET i == CHOOSE x \in 0..(Cardinality(S)) : x \notin S /\ (0..(x - 1)) \subseteq S
    IN (S \ (0..(i - 1))) \cup {i}

\* the widths size_t and intptr_t have in a build
SizeBits == {32, 64}

\* the value shifted without the xor of the sign mask
PackSignedNoMask(value) == U32(Shl(value, 1))

\* value is the int32_t as its 32 bits; the result is the uint32_t
PackSigned(value) ==
    Xor(U32(Shl(value, 1)), DecWrap(Shr(Complement(value, 32), 31), 32))

\* value is the size_t of w bits; the result is the intptr_t as its w bits
UnpackSigned(value, w) ==
    Xor(Shr(value, 1), DecWrap(Complement(value, w) \cap {0}, w))

\* the number a two's complement word of w bits stands for, as sign and magnitude
Signed(S, w) ==
    IF (w - 1) \in S
    THEN [neg |-> TRUE, mag |-> WordInc(Complement(S, w))]
    ELSE [neg |-> FALSE, mag |-> S]

\* the int32_t values drawn, as bits: small ones, large ones, INT32_MIN, -1
Int32Sample == SUBSET {0, 1, 2, 29, 30, 31} \cup {0..31, 0..30, 1..31}

\* the size_t values UnpackSigned is given directly
SizeSample(w) == SUBSET {0, 1, w - 2, w - 1} \cup {0..(w - 1), 1..(w - 1)}

SignedInit ==
    /\ \E w \in SizeBits :
         \/ \E x \in Int32Sample :
              hybrid = [pc |-> "pack", w |-> w, packed |-> TRUE, x |-> x]
         \/ \E v \in SizeSample(w) :
              hybrid = [pc |-> "unpack", w |-> w, packed |-> FALSE, x |-> {}, v |-> v]
    /\ histo = HistoOff /\ ucfg = UcfgOff /\ dec = DecOff /\ reader = ReaderOff

SignedPack ==
    /\ hybrid.pc = "pack"
    /\ hybrid' = [pc |-> "unpack", w |-> hybrid.w, packed |-> TRUE, x |-> hybrid.x,
                  v |-> PackSigned(hybrid.x)]
    /\ UNCHANGED <<histo, ucfg, dec, reader>>

SignedUnpack ==
    /\ hybrid.pc = "unpack"
    /\ hybrid' = [pc |-> "unpacked", w |-> hybrid.w, packed |-> hybrid.packed,
                  x |-> hybrid.x, v |-> hybrid.v, r |-> UnpackSigned(hybrid.v, hybrid.w)]
    /\ UNCHANGED <<histo, ucfg, dec, reader>>

SignedNext == SignedPack \/ SignedUnpack

SpecSigned == SignedInit /\ [][SignedNext]_vars

\* C15: UnpackSigned(PackSigned(x)) = x for every int32_t x; PackSigned maps a
\* non-negative X to 2X and a negative -X to 2X - 1; UnpackSigned maps every
\* even v to +v/2 and every odd v to -(v + 1)/2.
C15_PackUnpack ==
    /\ (hybrid.pc \in {"unpack", "unpacked"} /\ hybrid.packed) =>
          LET x == Signed(hybrid.x, 32)
          IN hybrid.v = (IF x.neg THEN WordDec(Shl(x.mag, 1)) ELSE Shl(x.mag, 1))
    /\ hybrid.pc = "unpacked" =>
          LET r == Signed(hybrid.r, hybrid.w)
          IN /\ 0 \notin hybrid.v => (~r.neg /\ r.mag = Shr(hybrid.v, 1))
             /\ 0 \in hybrid.v => (r.neg /\ r.mag = Shr(WordInc(hybrid.v), 1))
             /\ hybrid.packed => r = Signed(hybrid.x, 32)

\* INT32_MIN went through PackSigned and UnpackSigned
C15_Witness ==
    /\ hybrid.pc = "unpacked" /\ hybrid.packed
    /\ hybrid.x = {31}
    /\ hybrid.v = 0..31
    /\ hybrid.r = 31..(hybrid.w - 1)

(* ------------------------------------------------------------------ *)
(* HybridUintConfig::Encode with the default config                    *)
(* ------------------------------------------------------------------ *)

\* the documented rows <<N, token, nbits, bits>>, bits as a number
EncodeTable ==
    {<<16, 16, 2, 0>>, <<17, 16, 2, 1>>, <<20, 17, 2, 0>>, <<24, 18, 2, 0>>,
     <<28, 19, 2, 0>>, <<32, 20, 3, 0>>, <<65535, 63, 13, 8191>>}

\* C16: with split_exponent = 4, msb_in_token = 2, lsb_in_token = 0, Encode
\* gives (token N, nbits 0) for N in 0..15, the documented rows for 16, 17, 20,
\* 24, 28, 32 and 65535, and for N >= 16 with 2^n <= N < 2^(n+1) and m = N -
\* 2^n: token = 16 + 4(n - 4) + (m >> (n - 2)), bits = m mod 2^(n - 2).
C16_EncodeTable ==
    (hybrid.pc \in {"encoded", "decoded"} /\ hybrid.config = HybridUintConfig(4, 2, 0)) =>
        LET top == 31 \in hybrid.value
            N == IF top THEN 0 ELSE ToNat(hybrid.value)
            n == IF top THEN 31 ELSE CHOOSE k \in 0..30 : (N = 0 /\ k = 0) \/ N \div 2^k = 1
            m == IF top THEN ToNat(hybrid.value \ {31}) ELSE N - 2^n
        IN /\ (~top /\ N <= 15) =>
                 (hybrid.token = N /\ hybrid.nbits = 0 /\ hybrid.bits = {})
           /\ (top \/ N >= 16) =>
                 /\ hybrid.token = 16 + 4 * (n - 4) + (m \div 2^(n - 2))
                 /\ hybrid.nbits = n - 2
                 /\ ToNat(hybrid.bits) = m % 2^(n - 2)
           /\ \A row \in EncodeTable :
                 (~top /\ N = row[1]) =>
                     /\ hybrid.token = row[2]
                     /\ hybrid.nbits = row[3]
                     /\ ToNat(hybrid.bits) = row[4]

\* 65535 was encoded with the default config
C16_Witness ==
    /\ hybrid.pc = "encoded"
    /\ hybrid.config = HybridUintConfig(4, 2, 0)
    /\ hybrid.value = 0..15
    /\ hybrid.token = 63 /\ hybrid.nbits = 13 /\ hybrid.bits = 0..12

(* ------------------------------------------------------------------ *)
(* ReadHistogram: the general encoding                                  *)
(* ------------------------------------------------------------------ *)

\* an accepted general histogram
GeneralAccepted == histo.pc = "done" /\ histo.encoding = "general" /\ histo.ok

\* position j got its count from its own logcount
OwnCount(j) ==
    LET code == histo.logcounts[j]
    IN \/ j = histo.omit_pos
       \/ histo.same[j] # 0
       \/ code = 0 /\ histo.counts[j] = 0
       \/ code = 1 /\ histo.counts[j] = 1
       \/ code >= 2 /\ histo.counts[j] \in 2^(code - 1)..(2^code - 1)

\* C17 as stated: an RLE escape at position i with marked run length L =
\* rle_length + 5 makes the L positions starting at i (truncated at the
\* alphabet end) all carry the same final count as position i - 1.
C17_RunOfMarkedLength ==
    GeneralAccepted =>
        \A i \in 1..(histo.length - 1) :
            histo.same[i] # 0 =>
                \A j \in i..Min(i + histo.same[i] - 1, histo.length - 1) :
                    histo.counts[j] = histo.counts[i - 1]

\* C17, amended: the escape at position i makes the L - 1 = rle_length + 4
\* positions starting at i (truncated at the alphabet end) all carry the count
\* position i - 1 held when the second pass reached i: its final count, or 0
\* when i = 0 or when i - 1 is omit_pos, which is filled in only afterwards.
\* Position i + L - 1 is not part of the run: its logcount was decoded.
C17_RunReplicates ==
    GeneralAccepted =>
        \A i \in 0..(histo.length - 1) :
            histo.same[i] # 0 =>
                LET L == histo.same[i]
                    start == IF i = 0 \/ i - 1 = histo.omit_pos THEN 0
                             ELSE histo.counts[i - 1]
                IN /\ \A j \in i..Min(i + L - 2, histo.length - 1) :
                        histo.counts[j] = start
                   /\ i + L - 1 < histo.length => OwnCount(i + L - 1)

\* a run of a non-zero count, followed inside the alphabet by another count
C17_Witness ==
    /\ GeneralAccepted
    /\ \E i \in 1..(histo.length - 1) :
         /\ histo.same[i] # 0
         /\ i - 1 # histo.omit_pos
         /\ histo.counts[i - 1] > 0
         /\ i + histo.same[i] - 1 < histo.length
         /\ histo.counts[i + histo.same[i] - 1] # histo.counts[i - 1]

\* the positions at which a non-escape logcount was decoded so far
DecodedLogcounts ==
    {j \in histo.visited : histo.logcounts[j] # ANS_LOG_TAB_SIZE + 1}

\* C18: omit_pos is the smallest index, among the positions at which a
\* non-escape logcount was decoded, that attains the maximum such logcount
\* (the first maximum wins); RLE escape positions and positions skipped by a
\* run are never chosen.  It is -1 while no such position exists.
C18_OmitPosFirstMaximum ==
    (histo.encoding = "general" /\ histo.length > 0) =>
        IF DecodedLogcounts = {}
        THEN histo.omit_pos = -1
        ELSE /\ histo.omit_pos \in DecodedLogcounts
             /\ histo.omit_log = histo.logcounts[histo.omit_pos]
             /\ \A j \in DecodedLogcounts :
                   /\ histo.logcounts[j] <= histo.omit_log
                   /\ histo.logcounts[j] = histo.omit_log => j >= histo.omit_pos

\* the first pass ended with the maximum decoded twice, a run before it
C18_Witness ==
    /\ histo.encoding = "general" /\ histo.pc = "counts"
    /\ histo.omit_pos > 0
    /\ histo.same[0] # 0
    /\ \E j \in DecodedLogcounts :
         j > histo.omit_pos /\ histo.logcounts[j] = histo.omit_log

\* the sum of the counts at the positions other than omit_pos
SumOthers ==
    SumTo(histo.counts, histo.length)
        - (IF histo.omit_pos >= 0 THEN histo.counts[histo.omit_pos] ELSE 0)

\* C19: counts[omit_pos] is back-filled as 2^precision_bits minus the sum of
\* all other counts; ReadHistogram fails with 'Invalid histogram count.'
\* exactly when that sum is >= 2^precision_bits, so on success
\* counts[omit_pos] >= 1.
C19_BackFill ==
    (histo.pc = "done" /\ histo.encoding = "general") =>
        /\ (histo.error = "Invalid histogram count.")
              = (SumOthers >= 2^histo.precision_bits)
        /\ (histo.ok \/ histo.error = "Invalid histogram count.") =>
              histo.counts[histo.omit_pos] = 2^histo.precision_bits - SumOthers
        /\ histo.ok => histo.counts[histo.omit_pos] >= 1

\* the other counts sum to exactly 2^precision_bits and the call failed
C19_Witness ==
    /\ histo.pc = "done" /\ histo.encoding = "general"
    /\ histo.error = "Invalid histogram count."
    /\ SumOthers = 2^histo.precision_bits
    /\ histo.counts[histo.omit_pos] = 0

(* ------------------------------------------------------------------ *)
(* ReadHistogram: the shift of the general encoding, on stream bits     *)
(* ------------------------------------------------------------------ *)

RECURSIVE UnaryRun(_, _, _)
\* for (; log < upper_bound_log; log++) if (ReadFixedBits<1>() == 0) break;
UnaryRun(br, log, upper_bound_log) ==
    IF log >= upper_bound_log
    THEN [log |-> log, br |-> br]
    ELSE IF 0 \in PeekBits(br, 1)
         THEN UnaryRun(Consume(br, 1), log + 1, upper_bound_log)
         ELSE [log |-> log, br |-> Consume(br, 1)]

\* the block read with a run of up to ceil(log2(ANS_LOG_TAB_SIZE + 1)) bits
ReadShiftCeil(br) ==
    LET u == UnaryRun(br, 0, CeilLog2Nonzero(ANS_LOG_TAB_SIZE + 1))
        shift == ToNat(PeekBits(u.br, u.log) \cup {u.log}) - 1
    IN [shift |-> shift, log |-> u.log, br |-> Consume(u.br, u.log),
        ok |-> ~(shift > ANS_LOG_TAB_SIZE + 1)]

\* the block that reads shift
ReadShift(br) ==
    LET u == UnaryRun(br, 0, FloorLog2Nonzero(FromNat(ANS_LOG_TAB_SIZE + 1)))
        shift == ToNat(PeekBits(u.br, u.log) \cup {u.log}) - 1
    IN [shift |-> shift, log |-> u.log, br |-> Consume(u.br, u.log),
        ok |-> ~(shift > ANS_LOG_TAB_SIZE + 1)]

\* every stream of 9 bits after the bits simple_code = 0 and is_flat = 0
ShiftStreams == SUBSET (0..8)

ShiftInit ==
    /\ \E in \in ShiftStreams :
         histo = [pc |-> "shift", br |-> [buf |-> in, pos |-> 0]]
    /\ hybrid = HybridOff /\ ucfg = UcfgOff /\ dec = DecOff /\ reader = ReaderOff

ShiftRead ==
    /\ histo.pc = "shift"
    /\ LET r == ReadShift(histo.br)
       IN histo' = [pc |-> "shift_done", in |-> histo.br.buf, shift |-> r.shift,
                    log |-> r.log, br |-> r.br, ok |-> r.ok,
                    error |-> IF r.ok THEN "none" ELSE "Invalid shift value"]
    /\ UNCHANGED <<hybrid, ucfg, dec, reader>>

ShiftNext == ShiftRead

SpecShift == ShiftInit /\ [][ShiftNext]_vars

RECURSIVE LeadingOnes(_, _)
\* the 1-bits a number starts with (lowest first), at most cap
LeadingOnes(N, cap) ==
    IF cap = 0 \/ N % 2 = 0 THEN 0 ELSE 1 + LeadingOnes(N \div 2, cap - 1)

\* shift and the bits consumed, from the stream as a number: a unary run of at
\* most cap 1-bits, its terminating 0-bit when shorter than cap, then as many
\* bits as the run is long, with the implicit leading 1, minus 1
ShiftOf(N, cap) ==
    LET ones == LeadingOnes(N, cap)
        unary == IF ones < cap THEN ones + 1 ELSE ones
        payload == (N \div 2^unary) % 2^ones
    IN [shift |-> payload + 2^ones - 1, used |-> unary + ones]

\* what the call did equals the reading with a run of at most cap bits
ShiftReadAs(cap) ==
    LET e == ShiftOf(ToNat(histo.in), cap)
    IN /\ histo.shift = e.shift
       /\ histo.br.pos = e.used
       /\ histo.br.buf = Shr(histo.in, e.used)
       /\ (histo.error = "Invalid shift value") = (e.shift > ANS_LOG_TAB_SIZE + 1)
       /\ histo.ok = ~(e.shift > ANS_LOG_TAB_SIZE + 1)
       /\ histo.ok => histo.shift \in 0..(ANS_LOG_TAB_SIZE + 1)

\* C20 as stated: shift is read as a unary run of 1-bits of up to
\* ceil(log2(ANS_LOG_TAB_SIZE + 1)) bits terminated by a 0-bit, followed by that
\* many bits OR'd with the implicit leading 1 and decremented by 1; the call
\* fails with 'Invalid shift value' exactly when shift > ANS_LOG_TAB_SIZE + 1.
C20_ShiftRunUpToCeil ==
    histo.pc = "shift_done" => ShiftReadAs(CeilLog2Nonzero(ANS_LOG_TAB_SIZE + 1))

\* C20, amended: the unary run has at most floor(log2(ANS_LOG_TAB_SIZE + 1)) = 3
\* 1-bits and is terminated by a 0-bit only when shorter than that; then that
\* many bits are read, OR'd with the implicit leading 1 and decremented by 1.
\* The call fails with 'Invalid shift value' exactly when shift >
\* ANS_LOG_TAB_SIZE + 1, so every accepted shift is in [0, ANS_LOG_TAB_SIZE + 1].
C20_ShiftRunUpToFloor ==
    histo.pc = "shift_done" =>
        ShiftReadAs(FloorLog2Nonzero(FromNat(ANS_LOG_TAB_SIZE + 1)))

\* a run of three 1-bits, read without a terminating 0-bit, gave shift 14
C20_Witness ==
    /\ histo.pc = "shift_done"
    /\ histo.in = 0..5
    /\ histo.log = 3
    /\ histo.br.pos = 6
    /\ histo.shift = ANS_LOG_TAB_SIZE + 2
    /\ histo.error = "Invalid shift value"

(* ------------------------------------------------------------------ *)
(* ReadHistogram: the counts of the second pass                         *)
(* ------------------------------------------------------------------ *)

\* position j lies in a run: the second pass copies prev into it
InRun(j) ==
    \E i \in 0..j : histo.same[i] # 0 /\ j <= i + histo.same[i] - 2

\* the positions the second pass has given their count, outside omit_pos and
\* the runs
CountedAlone ==
    IF histo.encoding = "general"
          /\ (histo.pc = "counts"
               \/ (histo.pc = "done"
                     /\ (histo.ok \/ histo.error = "Invalid histogram count.")))
    THEN {j \in 0..(Min(histo.i, histo.length) - 1) : j # histo.omit_pos /\ ~InRun(j)}
    ELSE {}

\* C21 as stated: a position that is neither omit_pos nor inside an RLE run
\* gets count 0 if its code is 0, 1 if its code is 1, and otherwise
\* (1 << (code - 1)) + extra_bits, extra_bits being the value of the
\* GetPopulationCountPrecision(code - 1, shift) bits read.
C21_CountPlusExtraBits ==
    \A j \in CountedAlone :
        LET code == histo.logcounts[j]
        IN histo.counts[j] = (IF code = 0 THEN 0
                              ELSE IF code = 1 THEN 1
                              ELSE 2^(code - 1) + histo.extras[j])

\* C21, amended: such a position gets count 0 if its code is 0, 1 if its code
\* is 1, and otherwise (1 << (code - 1)) + (extra_bits << (code - 1 - bitcount))
\* with bitcount = GetPopulationCountPrecision(code - 1, shift): the bits read
\* are the bitcount bits just below the leading 1 of the count, and the count
\* lies in [2^(code - 1), 2^code).
C21_CountPlusShiftedExtraBits ==
    \A j \in CountedAlone :
        LET code == histo.logcounts[j]
            bitcount == GetPopulationCountPrecision(code - 1, histo.shift)
        IN /\ code = 0 => histo.counts[j] = 0
           /\ code = 1 => histo.counts[j] = 1
           /\ code >= 2 =>
                 /\ histo.extras[j] \in 0..(2^bitcount - 1)
                 /\ histo.counts[j] =
                        2^(code - 1) + histo.extras[j] * 2^(code - 1 - bitcount)
                 /\ histo.counts[j] \in 2^(code - 1)..(2^code - 1)

\* a count whose non-zero extra bits are fewer than code - 1
C21_Witness ==
    \E j \in CountedAlone :
        /\ histo.logcounts[j] >= 2
        /\ histo.extras[j] > 0
        /\ GetPopulationCountPrecision(histo.logcounts[j] - 1, histo.shift)
              < histo.logcounts[j] - 1


\* the place of a field in the order DecodeHistograms and DecodeANSCodes read
FieldRank(field) ==
    CASE field = "lz77" -> 1
      [] field = "length_config" -> 2
      [] field = "context_map" -> 3
      [] field = "use_prefix_code" -> 4
      [] field = "log_alpha_size" -> 5
      [] field = "uint_config" -> 6
      [] field = "histogram" -> 7
      [] field = "alphabet_size" -> 7
      [] field = "huffman" -> 8

\* the fields read once per histogram
PerHistogram == {"uint_config", "histogram", "alphabet_size", "huffman"}

\* the reads of one field, one per histogram, in index order
ReadsPerHistogram(field, n) == [c \in 1..n |-> <<field, c - 1>>]

\* the histograms whose Huffman table is read from the stream
TablesRead == {c \in 1..dec.num_histograms : dec.alphabet_sizes[c] > 1}

\* the c-th table read, in index order
TableRead(k) ==
    CHOOSE c \in TablesRead : Cardinality({b \in TablesRead : b < c}) = k - 1

\* the reads of a successful call, as the state it leaves determines them
ReadsInOrder ==
    <<(<<"lz77", 0>>)>>
    \o (IF dec.code.lz77.enabled THEN <<(<<"length_config", 0>>)>> ELSE << >>)
    \o (IF dec.num_contexts > 1 THEN <<(<<"context_map", 0>>)>> ELSE << >>)
    \o <<(<<"use_prefix_code", 0>>)>>
    \o (IF dec.code.use_prefix_code THEN << >> ELSE <<(<<"log_alpha_size", 0>>)>>)
    \o ReadsPerHistogram("uint_config", dec.num_histograms)
    \o (IF dec.code.use_prefix_code
        THEN ReadsPerHistogram("alphabet_size", dec.num_histograms)
             \o [k \in 1..Cardinality(TablesRead) |-> <<"huffman", TableRead(k) - 1>>]
        ELSE ReadsPerHistogram("histogram", dec.num_histograms))

\* C22: DecodeHistograms reads LZ77Params, the length config (only if LZ77 is
\* enabled), the context map (only if num_contexts after the increment is
\* above 1, otherwise there is one histogram), use_prefix_code, the 2-bit
\* log_alpha_size (ANS only, 5..8), one config per histogram, then the
\* histograms in index order or all alphabet sizes followed by the Huffman
\* tables in index order; each read starts at the bit where the previous ended
C22_ReadOrder ==
    dec.pc # "off" =>
      /\ dec.spans # << >> =>
           dec.spans[1].field = "lz77" /\ dec.spans[1].start = 0
      /\ \A k \in 1..(Len(dec.spans) - 1) :
           LET a == dec.spans[k]
               b == dec.spans[k + 1]
           IN /\ b.start = a.end
              /\ IF a.field = b.field
                 THEN /\ a.field \in PerHistogram
                      /\ b.index > a.index
                      /\ a.field # "huffman" => b.index = a.index + 1
                 ELSE /\ FieldRank(b.field) > FieldRank(a.field)
                      /\ b.field # "huffman" => b.index = 0
      /\ \A k \in 1..Len(dec.spans) :
           /\ dec.spans[k].field = "length_config" => dec.code.lz77.enabled
           /\ dec.spans[k].field = "context_map" => dec.num_contexts > 1
           /\ dec.spans[k].field = "log_alpha_size" =>
                ~dec.code.use_prefix_code /\ dec.code.log_alpha_size \in 5..8
           /\ dec.spans[k].field \in {"alphabet_size", "huffman"} =>
                dec.code.use_prefix_code
           /\ dec.spans[k].field = "histogram" => ~dec.code.use_prefix_code
      /\ (dec.pc \notin {"huffman", "done"} /\ dec.spans # << >>) =>
           dec.pos = dec.spans[Len(dec.spans)].end
      /\ (dec.pc = "done" /\ dec.ok) =>
           /\ [k \in 1..Len(dec.spans) |->
                  <<dec.spans[k].field, dec.spans[k].index>>] = ReadsInOrder
           /\ dec.pos = dec.spans[Len(dec.spans)].end
           /\ dec.num_contexts <= 1 => dec.num_histograms = 1

\* a prefix-code call with LZ77 enabled and a context map has returned true,
\* its Huffman tables read from a position inside a byte
C22_Witness ==
    /\ dec.pc = "done" /\ dec.ok
    /\ dec.code.use_prefix_code /\ dec.code.lz77.enabled
    /\ dec.num_histograms >= 2
    /\ Cardinality(TablesRead) >= 2
    /\ \E k \in 1..Len(dec.spans) :
         /\ dec.spans[k].field = "huffman"
         /\ dec.spans[k - 1].field = "alphabet_size"
         /\ dec.spans[k].start % kBitsPerByte # 0


\* a call of ReadHybridUintClustered is made with a copy run pending
PendingCopyCall ==
    /\ reader.pc # "off"
    /\ reader.num_to_copy_ # {}
    /\ reader' # reader
    /\ reader'.last \notin {"single", "not_single"}

\* the call read no bit, looked up no table, kept state_, returned the value
\* of the window at copy_pos_ and moved the three counters by one
PendingCopyEffect ==
    /\ reader'.pos = reader.pos
    /\ reader'.steps = << >>
    /\ reader'.state_ = reader.state_
    /\ Len(reader'.out) = Len(reader.out) + 1
    /\ reader.copy_pos_ % (kWindowMask + 1) < Len(reader.window) =>
         reader'.out[Len(reader'.out)] =
             reader.window[(reader.copy_pos_ % (kWindowMask + 1)) + 1]
    /\ reader'.num_to_copy_ = WordDec(reader.num_to_copy_)
    /\ WordAdd(reader'.num_to_copy_, 1) = reader.num_to_copy_
    /\ reader'.copy_pos_ = reader.copy_pos_ + 1
    /\ reader'.num_decoded_ = reader.num_decoded_ + 1
    /\ \A f \in {"tables", "use_prefix_code_", "configs", "lz77_ctx_",
                 "lz77_min_length_", "lz77_threshold_", "lz77_length_uint_",
                 "distance_multiplier", "num_special_distances_"} :
         reader'[f] = reader[f]

\* C23 (as stated): with a copy run pending, a call of ReadHybridUintClustered
\* reads no bit, looks up no table, keeps state_, returns the window value at
\* copy_pos_ and changes nothing but num_to_copy_ (-1), copy_pos_ (+1) and
\* num_decoded_ (+1): the window is as it was.
C23_CopyChangesCursorOnly ==
    [][PendingCopyCall => (PendingCopyEffect /\ reader'.window = reader.window)]_vars

\* C23 (amended): with a copy run pending, a call of ReadHybridUintClustered
\* reads no bit, looks up no table, keeps state_, returns the window value at
\* copy_pos_, moves num_to_copy_ (-1), copy_pos_ (+1) and num_decoded_ (+1),
\* and stores the returned value in the window cell of the old num_decoded_.
C23_CopyChangesCursorAndCell ==
    [][PendingCopyCall =>
         /\ PendingCopyEffect
         /\ reader'.window =
                WindowWrite(reader.window, reader.num_decoded_ % (kWindowMask + 1),
                            reader'.out[Len(reader'.out)])]_vars

\* a pending copy has returned a value that differs from the one its cell held
\* or filled a cell never written
C23_Witness ==
    /\ reader.pc # "off"
    /\ reader.last = "copy"
    /\ reader.num_to_copy_ # {}
    /\ reader.run.distance >= 1
    /\ reader.window[reader.num_decoded_] = reader.out[Len(reader.out)]
    /\ reader.num_decoded_ = Len(reader.window)


\* C24: when a length token has been decoded, num_to_copy_ (the decoded length
\* plus min_length, cut to 32 bits) is above 0 at the recursive call, so the
\* call copies: no outer call follows more than one length token, and so none
\* reads more than two symbols.
C24_LengthTokenStartsCopy ==
    reader.pc # "off" =>
        /\ reader.last = "length" => reader.num_to_copy_ # {}
        /\ reader.depth <= 1


(* ------------------------------------------------------------------ *)
(* The special distances: the table the constructor fills from the    *)
(* distance multiplier, and the mapping of a raw distance code         *)
(* ------------------------------------------------------------------ *)

\* the multipliers readers are constructed with: none, small ones, the largest
\* power of two whose offsets all fit an int, and the next one
MultiplierSample == {0, 1, 2, 5, 2^28, 2^29}

\* the raw codes a distance token decodes to: the special ones and a few above
RawCodes == 0..(kNumSpecialDistances + 2)

\* static_cast<int>(distance_multiplier) * kSpecialDistances[i][1], or the sum
\* with kSpecialDistances[i][0], leaves the range of int
DistOverflows(i, distance_multiplier) ==
    LET dx == kSpecialDistances[i + 1][1]
        dy == kSpecialDistances[i + 1][2]
        high == ((distance_multiplier \div 2^16) * dy)
                  + (((distance_multiplier % 2^16) * dy) \div 2^16)
    IN \/ high >= 2^15
       \/ dx > 0 /\ distance_multiplier * dy > (2^30 + (2^30 - 1)) - dx

\* special_distances_[i] where int arithmetic wraps
SpecialDistanceWrapped(i, distance_multiplier) ==
    LET dx == kSpecialDistances[i + 1][1]
        dy == kSpecialDistances[i + 1][2]
        low == (((distance_multiplier % 2^16) * dy) % 2^16) + dx
        high == (((distance_multiplier \div 2^16) * dy)
                   + (((distance_multiplier % 2^16) * dy) \div 2^16)
                   + (low \div 2^16)) % 2^16
        dist == (high * 2^16) + (low % 2^16)
    IN IF high >= 2^15 \/ dist < 1 THEN 1 ELSE dist

\* the constructor's loop over special_distances_, in a build whose int
\* arithmetic wraps
SpecialDistances(distance_multiplier) ==
    [i \in 1..(IF distance_multiplier = 0 THEN 0 ELSE kNumSpecialDistances) |->
        IF DistOverflows(i - 1, distance_multiplier)
        THEN SpecialDistanceWrapped(i - 1, distance_multiplier)
        ELSE SpecialDistance(i - 1, distance_multiplier)]

DistanceInit ==
    /\ ucfg \in [pc : {"distance_new"}, distance_multiplier : MultiplierSample]
    /\ hybrid = HybridOff /\ histo = HistoOff /\ dec = DecOff /\ reader = ReaderOff

\* ANSSymbolReader(code, br, distance_multiplier) over a code with LZ77
\* enabled; a signed overflow is undefined: the build wraps or traps
DistanceConstruct ==
    /\ ucfg.pc = "distance_new"
    /\ \E overflow \in {"wrap", "trap"} :
         LET m == ucfg.distance_multiplier
             overflows == m # 0 /\ \E i \in 0..(kNumSpecialDistances - 1) :
                                      DistOverflows(i, m)
         IN /\ ~overflows => overflow = "wrap"
            /\ IF overflows /\ overflow = "trap"
               THEN ucfg' = [pc |-> "distance_trap", distance_multiplier |-> m]
               ELSE ucfg' = [pc |-> "distance", distance_multiplier |-> m,
                             special_distances_ |-> SpecialDistances(m),
                             num_special_distances_ |->
                                 IF m = 0 THEN 0 ELSE kNumSpecialDistances,
                             raw |-> 0, distance |-> 0, mapped |-> FALSE]
    /\ UNCHANGED <<hybrid, histo, dec, reader>>

\* if (distance < num_special_distances_) distance = special_distances_[distance];
\* else distance = distance + 1 - num_special_distances_
DistanceMap ==
    /\ ucfg.pc = "distance"
    /\ \E raw \in RawCodes :
         ucfg' = [ucfg EXCEPT !.raw = raw, !.mapped = TRUE,
                              !.distance =
                                  IF raw < ucfg.num_special_distances_
                                  THEN ucfg.special_distances_[raw + 1]
                                  ELSE (raw + 1) - ucfg.num_special_distances_]
    /\ UNCHANGED <<hybrid, histo, dec, reader>>

DistanceNext == DistanceConstruct \/ DistanceMap

SpecDistance == DistanceInit /\ [][DistanceNext]_vars

RECURSIVE WordTimes(_, _)
\* the word of k times a number below 2^31
WordTimes(n, k) == IF k = 0 THEN {} ELSE WordAdd(WordTimes(n, k - 1), n)

\* max(1, dx + m * dy), as a word
OffsetWord(i, m) ==
    LET dx == kSpecialDistances[i + 1][1]
        dy == kSpecialDistances[i + 1][2]
    IN IF DistOverflows(i, m)
       THEN IF dx >= 0 THEN WordAdd(WordTimes(m, dy), dx)
                       ELSE WordSub(WordTimes(m, dy), 0 - dx)
       ELSE FromNat(IF dx + (m * dy) < 1 THEN 1 ELSE dx + (m * dy))

\* the claimed mapping, for the codes whose offset is computed within int
MappedAsClaimed(inRange) ==
    (ucfg.pc = "distance" /\ ucfg.mapped) =>
        LET m == ucfg.distance_multiplier
            d == ucfg.raw
        IN /\ (m > 0 /\ d < kNumSpecialDistances
                 /\ (inRange => ~DistOverflows(d, m))) =>
                  FromNat(ucfg.distance) = OffsetWord(d, m)
           /\ (m > 0 /\ d = 0 /\ ~DistOverflows(d, m)) => ucfg.distance = m
           /\ (m > 0 /\ d >= kNumSpecialDistances) =>
                  ucfg.distance = (d - kNumSpecialDistances) + 1
           /\ m = 0 => ucfg.distance = d + 1
           /\ \A i \in DOMAIN ucfg.special_distances_ : ucfg.special_distances_[i] >= 1

\* C25: with distance_multiplier m > 0 a raw code d < 120 maps to
\* max(1, kSpecialDistances[d][0] + m * kSpecialDistances[d][1]) (code 0 to m)
\* and a code d >= 120 to d - 120 + 1; with m = 0 every code d maps to d + 1;
\* every entry of special_distances_ is at least 1.
C25_DistanceMapping == MappedAsClaimed(FALSE)


RECURSIVE ReadClusteredTimes(_, _, _, _, _)
\* count consecutive calls of ReadHybridUintClustered(ctx): the reader they
\* leave, its out holding what they returned
ReadClusteredTimes(rd, ctx, stream, garbage, count) ==
    IF count = 0 THEN rd
    ELSE ReadClusteredTimes(ReadClustered(rd, ctx, stream, garbage, 1, 1),
                            ctx, stream, garbage, count - 1)

\* the members of a reader that its operations change
ReaderState(rd) ==
    <<rd.state_, rd.pos, rd.num_decoded_, rd.num_to_copy_, rd.copy_pos_, rd.window>>

\* IsSingleValue(ctx, &value, count) returning true from the state rd leaves
\* what count calls of ReadHybridUintClustered(ctx) leave, each returning value
\* and reading no bit
FastPathIsSlowPath(rd) ==
    \A ctx \in 0..(Len(rd.tables) - 1), count \in 1..2 :
        LET fast == SingleValue(rd, ctx, count)
        IN fast.last = "single" =>
             \A stream \in SampleStreams, garbage \in SampleGarbage :
                 LET slow == ReadClusteredTimes(rd, ctx, stream, garbage, count)
                 IN /\ ReaderState(slow) = ReaderState(fast)
                    /\ slow.out = fast.out
                    /\ slow.pc = "idle"

\* C26: whenever IsSingleValue(ctx, &value, count) returns true, the reader
\* ends in the state (state_, bit position, num_decoded_, num_to_copy_,
\* copy_pos_, window) that count consecutive ReadHybridUintClustered(ctx) calls
\* from the same starting state would leave, each of them returning value and
\* consuming no bits.
C26_FastPathEquivalent ==
    (reader.pc = "idle") => FastPathIsSlowPath(reader)


\* C27: in ANS mode a symbol decode step that starts with state_ >= 2^16 and
\* looks up an entry with 1 <= freq <= ANS_TAB_SIZE and offset < freq forms
\* freq * (state_ >> ANS_LOG_TAB_SIZE) + offset within 32 bits, consumes 0 or
\* 16 bits, 16 exactly when that product is below 2^16, and ends with
\* state_ >= 2^16.
C27_StepWithinWord ==
    (reader.pc # "off" /\ ~reader.use_prefix_code_) =>
        \A k \in DOMAIN reader.steps :
            LET step == reader.steps[k]
            IN (/\ Shr(step.before, 16) # {}
                /\ 1 <= step.freq /\ step.freq <= ANS_TAB_SIZE
                /\ step.offset < step.freq) =>
                   /\ ~step.overflow
                   /\ step.product \subseteq 0..31
                   /\ step.consumed \in {0, 16}
                   /\ step.consumed = 16 <=> Shr(step.product, 16) = {}
                   /\ Shr(step.after, 16) # {}

\* a step from state_ >= 2^16 whose product stayed at or above 2^16 has
\* consumed nothing
C27_Witness ==
    /\ reader.pc # "off" /\ ~reader.use_prefix_code_
    /\ \E k \in DOMAIN reader.steps :
         /\ Shr(reader.steps[k].before, 16) # {}
         /\ reader.steps[k].freq < ANS_TAB_SIZE
         /\ Shr(reader.steps[k].product, 16) # {}
         /\ reader.steps[k].consumed = 0
         /\ reader.steps[k].after = reader.steps[k].product


\* the cells of the window that hold the latest values, being what cut(value)
\* makes of the values produced: num_decoded_ counts the values produced and
\* cell p mod 2^20 holds the p-th of them for the last 2^20 positions p
RingBuffer(cut) ==
    reader.pc # "off" =>
        /\ reader.num_decoded_ = Len(reader.out)
        /\ \A p \in 0..(reader.num_decoded_ - 1) :
             p >= reader.num_decoded_ - kWindowSize =>
                 /\ p % kWindowSize < Len(reader.window)
                 /\ reader.window[(p % kWindowSize) + 1] = cut[reader.out[p + 1]]

\* the values a reader may return, as size_t words
ProducedValues == {reader.out[k] : k \in DOMAIN reader.out}

C29_NoLz77WhenDisabled ==
    (reader.pc # "off" /\ ~reader.enabled) =>
        /\ reader.lz77_threshold_ = 2^20
        /\ \A h \in DOMAIN reader.tables : \A k \in DOMAIN reader.tables[h] :
             reader.tables[h][k].value < reader.lz77_threshold_
        /\ reader.num_to_copy_ = {}
        /\ reader.pc = "idle"
        /\ reader.last \notin {"length", "copy"}
        /\ reader.depth = 0
        /\ reader.last = "literal" =>
             /\ reader.num_decoded_ = Len(reader.out)
             /\ ~reader.use_prefix_code_ => Len(reader.steps) = 1

\* a reader without LZ77 has decoded MaxDecoded values, the last of them the
\* token 9 that a reader with LZ77 takes as a length token
C29_Witness ==
    /\ reader.pc # "off" /\ ~reader.enabled
    /\ ~reader.use_prefix_code_
    /\ reader.last = "literal"
    /\ reader.num_decoded_ = MaxDecoded
    /\ \E b \in {0, 1} : reader.out[Len(reader.out)] = FromNat(2^8 + b)


\* C30: a reader of prefix codes has state_ = ANS_SIGNATURE << 16 in every
\* reachable state, whatever operations ran on whatever stream, so
\* CheckANSFinalState returns true; IsSingleValue returns false and leaves
\* every member as it was.
C30_PrefixStateUntouched ==
    (reader.pc # "off" /\ reader.use_prefix_code_) =>
        /\ reader.state_ = Shl(FromNat(ANS_SIGNATURE), 16)
        /\ CheckANSFinalState(reader).last = "final_true"
        /\ reader.steps = << >>
        /\ \A ctx \in 0..(Len(reader.tables) - 1), count \in 1..2 :
             LET after == SingleValue(reader, ctx, count)
             IN /\ after.last = "not_single"
                /\ ReaderState(after) = ReaderState(reader)
                /\ after.out = reader.out
        /\ reader.last # "single"

\* a reader of prefix codes has decoded literals and a length token, returned
\* a copy, and then answered IsSingleValue
C30_Witness ==
    /\ reader.pc # "off" /\ reader.use_prefix_code_
    /\ reader.last = "not_single"
    /\ reader.enabled
    /\ reader.num_decoded_ >= 2
    /\ reader.num_to_copy_ # {}
    /\ reader.pos > 0

====
